---- MODULE Spec2Model ----
(***************************************************************************)
(* The weekly "Hunters vs Ghosts" contest engine of the Kandid API server  *)
(* (the Express server file that defines getContestWindow,                 *)
(* ensureActiveContest, syncContestAssignments,                            *)
(* handleContestLocationUpdate and handleContestCapture).                  *)
(*                                                                         *)
(* The SQLite tables are the state.  Every HTTP handler is one action: the *)
(* handler runs to completion before the next request is served.  The      *)
(* specifications about requests in flight at once, and about storage      *)
(* calls that fail, advance a request by one storage call per action.      *)
(*                                                                         *)
(* Units.  Instants are milliseconds since the Unix epoch, as Date.now().  *)
(* A coordinate is a latitude in units of 1e-5 degree on one meridian (the *)
(* longitude is the same for every point), so the haversine formula of     *)
(* distanceKm reduces to R * |dLat|.  Distances are fixed-point kilometres *)
(* with six decimals (1 unit = 1 mm).                                      *)
(***************************************************************************)
EXTENDS Integers, Sequences, FiniteSets, TLC

VARIABLES
    now,                  \* Date.now(), the wall clock
    users,                \* table users: id -> [bekandid_enabled, location_lat]
    posts,                \* table posts, in insertion order
    inbox_messages,       \* table inbox_messages, in insertion order
    contest_weeks,        \* table contest_weeks, a set of rows
    contest_assignments,  \* table contest_assignments, a set of rows
    contest_captures,     \* table contest_captures, in insertion order
    response,             \* the last request served and what the server answered
    requests              \* the requests in flight: where each is, and what it has read

vars == <<now, users, posts, inbox_messages, contest_weeks, contest_assignments,
          contest_captures, response, requests>>

----------------------------------------------------------------------------
(* Program constants *)

NULL == -1

HOUR_MS == 60 * 60 * 1000
DAY_MS == 24 * HOUR_MS

CONTEST_START_DAY_UTC == 0
CONTEST_START_HOUR_UTC == 20
CONTEST_DURATION_MS == 7 * 24 * 60 * 60 * 1000
CONTEST_PROXIMITY_KM == 300000
CONTEST_ALERT_COOLDOWN_MS == 60 * 60 * 1000
CONTEST_CAMPING_THRESHOLD_MS == 6 * 60 * 60 * 1000
CONTEST_CAMPING_DISTANCE_KM == 100000
CONTEST_CHALLENGES ==
    << "Capture them eating",
       "Catch them laughing",
       "Spot them with a colorful outfit",
       "Find them using their phone",
       "Capture them in motion",
       "Catch them with a group of friends" >>

Infinity == 2000000000

----------------------------------------------------------------------------
(* Bounds of the model *)

\* Hours the clock may advance past StartNow in hourly steps.
MaxHours == 7
\* Contest lengths the clock may advance past StartNow in weekly steps.
MaxWeeks == 1
\* Rows the inbox may hold before location updates stop being taken.
MaxInbox == 5
\* Rows the posts table may hold before posts stop being taken.
MaxPosts == 5
\* Rows of the posts table in the runs that mix captures with location reports.
MaxSurvivalPosts == 4
\* Days the clock may advance past StartNow in the runs across the weekly boundary.
MaxWindowDays == 8
\* Hours the clock may advance in the runs with two ghosts near one hunter.
MaxAlertHours == 2

\* Steps of 89 m a ghost may drift north of Ari's seed point.
MaxDriftSteps == 3

\* Accounts that may exist (the three seeded ones included).
MaxUsers == 4

\* Sunday 1970-01-04 08:00:00 UTC, twelve hours before a weekly boundary.
StartNow == (3 * 24 + 8) * HOUR_MS
MaxNow == StartNow + MaxHours * HOUR_MS

\* Latitudes of the seeded accounts, in 1e-5 degree (40.7129, 40.7282, 40.7178).
SeedLat == << 4071290, 4072820, 4071780 >>
\* Latitudes a client reports: Ari's seed point and a point 200 m north of
\* it.  Devon's seed point is 545 m north of the first and 345 m north of the
\* second, Mina's 1.7 km north of the first.
Positions == { 4071290, 4071290 + 180 }
\* The accounts that report positions in the location runs, and the accounts
\* that switch BeKandid mode in the capture runs.
Movers == { 1, 2 }
Togglers == { 3 }
\* The accounts that switch BeKandid mode in the runs about a row's lifetime.
Leavers == { 1, 3 }

\* The challenge strings a client claims, and the outcomes of the random
\* challenge draw that the capture runs explore.
Draws == { CONTEST_CHALLENGES[1], CONTEST_CHALLENGES[2] }
\* The one outcome of the draw explored where the challenge plays no part.
OneDraw == { CONTEST_CHALLENGES[1] }

----------------------------------------------------------------------------
(* Pure helpers *)

Abs(x) == IF x < 0 THEN -x ELSE x

Max(S) == CHOOSE x \in S : \A y \in S : y <= x
Min(S) == CHOOSE x \in S : \A y \in S : x <= y

RECURSIVE SortedSeq(_)
\* The ids of a set in ascending order: the order the rows were inserted in,
\* which is the order an unordered SELECT on the users table returns them.
SortedSeq(S) == IF S = {} THEN << >>
                ELSE LET m == Min(S) IN << m >> \o SortedSeq(S \ {m})

Range(s) == { s[i] : i \in 1..Len(s) }

\* Math.floor where the code has Math.ceil.
FloorHalf(n) == n \div 2

\* Math.ceil(n / 2)
CeilHalf(n) == (n + 1) \div 2

\* distanceKm giving 0 where the code gives Infinity.
distanceKmUndefinedIsZero(lat1, lat2) ==
    IF lat1 = NULL \/ lat2 = NULL THEN 0
    ELSE (Abs(lat2 - lat1) * 1111949) \div 1000

\* distanceKm: haversine with R = 6371 km on one meridian, R * pi / 180 =
\* 111.1949 km per degree, i.e. 1111.949 mm per 1e-5 degree.
distanceKm(lat1, lat2) ==
    IF lat1 = NULL \/ lat2 = NULL THEN Infinity
    ELSE (Abs(lat2 - lat1) * 1111949) \div 1000

\* getContestWindow: the most recent Sunday 20:00 UTC at or before `t`.
\* 1970-01-01 was a Thursday (getUTCDay() = 4).
getUTCDay(t) == (4 + (t \div DAY_MS)) % 7

\* getContestWindow with >= where the code has >: an instant that is a
\* Sunday 20:00:00.000 falls into the week before.
getContestWindowStrict(t) ==
    LET dayStart == (t \div DAY_MS) * DAY_MS
        dayDiff  == (getUTCDay(t) - CONTEST_START_DAY_UTC + 7) % 7
        start0   == dayStart + CONTEST_START_HOUR_UTC * HOUR_MS - dayDiff * DAY_MS
        start    == IF start0 >= t THEN start0 - 7 * DAY_MS ELSE start0
    IN  [startsAt |-> start, endsAt |-> start + CONTEST_DURATION_MS]

getContestWindow(t) ==
    LET dayStart == (t \div DAY_MS) * DAY_MS
        dayDiff  == (getUTCDay(t) - CONTEST_START_DAY_UTC + 7) % 7
        start0   == dayStart + CONTEST_START_HOUR_UTC * HOUR_MS - dayDiff * DAY_MS
        start    == IF start0 > t THEN start0 - 7 * DAY_MS ELSE start0
    IN  [startsAt |-> start, endsAt |-> start + CONTEST_DURATION_MS]

Swap(s, i, j) == [s EXCEPT ![i] = s[j], ![j] = s[i]]

RECURSIVE shuffleFrom(_, _)
\* The Fisher-Yates loop from index i down: every value Math.random() can
\* give for j is an outcome.
shuffleFrom(copy, i) ==
    IF i <= 1 THEN { copy }
    ELSE UNION { shuffleFrom(Swap(copy, i, j), i - 1) : j \in 1..i }

shuffle(array) == shuffleFrom(array, Len(array))

----------------------------------------------------------------------------
(* Rows *)

\* The row the three INSERTs of syncContestAssignments write.  The columns
\* the INSERT does not name take the column default: no camping violation,
\* no last location.
NewAssignment(contestId, userId, role, t) ==
    [contest_id |-> contestId, user_id |-> userId, role |-> role,
     captures |-> 0, survival_flag |-> 1, camping_violation |-> 0,
     last_location_lat |-> NULL, last_move_at |-> t]

\* createInboxEntry
createInboxEntry(inbox, recipientId, senderId, postId, type, createdAt) ==
    Append(inbox, [recipient_id |-> recipientId, sender_id |-> senderId,
                   post_id |-> postId, type |-> type, created_at |-> createdAt])

Participants(usr) == { u \in DOMAIN usr : usr[u].bekandid_enabled = 0 }
Bekandid(usr) == { u \in DOMAIN usr : usr[u].bekandid_enabled = 1 }

RowsOf(asg, contestId) == { r \in asg : r.contest_id = contestId }
RowsOfUser(asg, contestId, userId) ==
    { r \in asg : r.contest_id = contestId /\ r.user_id = userId }
CountRole(rows, role) == Cardinality({ r \in rows : r.role = role })

----------------------------------------------------------------------------
(* syncContestAssignments *)

\* The sync without its DELETE.
RetractNothing(asg, contestId, usr) == asg

\* The DELETE taking the rows of captured ghosts with it.
RetractCaptured(asg, contestId, usr) ==
    { r \in asg : ~(r.contest_id = contestId
                    /\ (r.user_id \in Bekandid(usr) \/ r.survival_flag = 0)) }

\* The DELETE restricted to ghost rows: a hunter who opts out keeps its row.
RetractGhosts(asg, contestId, usr) ==
    { r \in asg : ~(r.contest_id = contestId /\ r.user_id \in Bekandid(usr)
                    /\ r.role = "ghost") }

\* The DELETE of every row of the contest whose user has bekandid_enabled = 1.
Retract(asg, contestId, usr) ==
    { r \in asg : ~(r.contest_id = contestId /\ r.user_id \in Bekandid(usr)) }

\* The initial partition: the first ceil(n/2) of the shuffled participants
\* become hunters, the rest ghosts.
PartitionRows(contestId, shuffled, t) ==
    LET midpoint == CeilHalf(Len(shuffled))
        hunters  == SubSeq(shuffled, 1, midpoint)
        ghosts   == SubSeq(shuffled, midpoint + 1, Len(shuffled))
    IN  { NewAssignment(contestId, u, "hunter", t) : u \in Range(hunters) }
        \cup { NewAssignment(contestId, u, "ghost", t) : u \in Range(ghosts) }

\* The comparison with < where the code has <=: a tie goes to ghost.
JoinRoleTieToGhost(hunterCount, ghostCount) ==
    IF hunterCount < ghostCount THEN "hunter" ELSE "ghost"

\* The role an incremental join gives with the running counts as they are.
JoinRole(hunterCount, ghostCount) ==
    IF hunterCount <= ghostCount THEN "hunter" ELSE "ghost"

\* The join loop with the counts read once and never updated: every new
\* row gets the role the first one gets.
JoinRowsStaleCounts(toAssign, hunterCount, ghostCount, contestId, t) ==
    { NewAssignment(contestId, toAssign[i], JoinRole(hunterCount, ghostCount), t)
      : i \in 1..Len(toAssign) }

\* The sync without its join loop.
JoinRowsNone(toAssign, hunterCount, ghostCount, contestId, t) == {}

RECURSIVE JoinRows(_, _, _, _, _)
\* The loop over toAssign, the running counts updated as rows are added.
JoinRows(toAssign, hunterCount, ghostCount, contestId, t) ==
    IF toAssign = << >> THEN {}
    ELSE LET role == JoinRole(hunterCount, ghostCount)
         IN  { NewAssignment(contestId, Head(toAssign), role, t) }
             \cup JoinRows(Tail(toAssign),
                           IF role = "hunter" THEN hunterCount + 1 ELSE hunterCount,
                           IF role = "hunter" THEN ghostCount ELSE ghostCount + 1,
                           contestId, t)

\* The sync taking the initial-partition branch on every run: the rows of
\* the week are dropped and the participants shuffled again.
syncContestAssignmentsRepartition(asg, contestId, usr, t) ==
    LET participants == SortedSeq(Participants(usr))
        others       == { r \in asg : r.contest_id # contestId }
    IN  { [asg  |-> others \cup PartitionRows(contestId, shuffled, t),
           sync |-> "partition"] : shuffled \in shuffle(participants) }

\* The sync shuffling the whole population again whenever a user lacks a
\* row.
syncContestAssignmentsReshuffles(asg, contestId, usr, t) ==
    LET participants == SortedSeq(Participants(usr))
        retracted    == Retract(asg, contestId, usr)
        existing     == RowsOf(retracted, contestId)
        assignedSet  == { r.user_id : r \in existing }
        toAssign     == SelectSeq(participants, LAMBDA u : u \notin assignedSet)
    IN  IF toAssign # << >>
        THEN { [asg  |-> (retracted \ existing)
                         \cup PartitionRows(contestId, shuffled, t),
                sync |-> IF existing = {} THEN "partition" ELSE "join"]
               : shuffled \in shuffle(participants) }
        ELSE { [asg |-> retracted, sync |-> "none"] }

\* Every outcome of one run of the sync: the assignments table after it and
\* the branch it took.
syncContestAssignments(asg, contestId, usr, t) ==
    LET participants == SortedSeq(Participants(usr))
        retracted    == Retract(asg, contestId, usr)
        existing     == RowsOf(retracted, contestId)
        assignedSet  == { r.user_id : r \in existing }
        toAssign     == SelectSeq(participants, LAMBDA u : u \notin assignedSet)
    IN  IF existing = {}
        THEN { [asg  |-> retracted \cup PartitionRows(contestId, shuffled, t),
                sync |-> "partition"] : shuffled \in shuffle(participants) }
        ELSE { [asg  |-> retracted \cup
                         JoinRows(toAssign, CountRole(existing, "hunter"),
                                  CountRole(existing, "ghost"), contestId, t),
                sync |-> IF toAssign = << >> THEN "none" ELSE "join"] }

----------------------------------------------------------------------------
(* ensureActiveContest *)

WeeksAt(weeks, startsAt) == { w \in weeks : w.starts_at = startsAt }

\* ensureActiveContest without its SELECT: a week row is inserted on every
\* call.
ensureActiveContestAlwaysInserts(weeks, asg, usr, t, drawn) ==
    LET window  == getContestWindow(t)
        contest == [id |-> Cardinality(weeks) + 1, starts_at |-> window.startsAt,
                    ends_at |-> window.endsAt, challenge |-> drawn]
    IN  { [contest_weeks |-> weeks \cup { contest },
           contest_assignments |-> s.asg,
           contest |-> contest,
           sync |-> s.sync]
          : s \in syncContestAssignments(asg, contest.id, usr, t) }

\* Every outcome of one call: the two tables after it, the contest row it
\* returns and the branch the sync took.  `drawn` is the catalog entry
\* Math.random() picks if the week has to be created.
ensureActiveContest(weeks, asg, usr, t, drawn) ==
    LET window  == getContestWindow(t)
        found   == WeeksAt(weeks, window.startsAt)
        contest == IF found # {} THEN CHOOSE w \in found : TRUE
                   ELSE [id |-> Cardinality(weeks) + 1, starts_at |-> window.startsAt,
                         ends_at |-> window.endsAt, challenge |-> drawn]
    IN  { [contest_weeks |-> weeks \cup { contest },
           contest_assignments |-> s.asg,
           contest |-> contest,
           sync |-> s.sync]
          : s \in syncContestAssignments(asg, contest.id, usr, t) }

----------------------------------------------------------------------------
(* handleContestLocationUpdate *)

\* The WHERE clause without its contest_id condition.
MatchesAnyWeek(r, contestId, userId) == r.user_id = userId

\* WHERE contest_id = ? AND user_id = ?
Matches(r, contestId, userId) == r.contest_id = contestId /\ r.user_id = userId

\* The first UPDATE, writing survival_flag = 1 as well.
StoreLocationRevives(asg, contestId, userId, lat, t) ==
    { IF Matches(r, contestId, userId)
      THEN [r EXCEPT !.last_location_lat = lat, !.survival_flag = 1,
                     !.last_move_at = IF r.last_move_at = NULL THEN t ELSE r.last_move_at]
      ELSE r : r \in asg }

\* The first UPDATE without COALESCE: last_move_at is written on every
\* report.
StoreLocationStampsMove(asg, contestId, userId, lat, t) ==
    { IF Matches(r, contestId, userId)
      THEN [r EXCEPT !.last_location_lat = lat, !.last_move_at = t]
      ELSE r : r \in asg }

\* The first UPDATE: the coordinates are stored, last_move_at only if unset.
StoreLocation(asg, contestId, userId, lat, t) ==
    { IF Matches(r, contestId, userId)
      THEN [r EXCEPT !.last_location_lat = lat,
                     !.last_move_at = IF r.last_move_at = NULL THEN t ELSE r.last_move_at]
      ELSE r : r \in asg }

\* UPDATE ... SET camping_violation = 0, last_move_at = ?
ClearCamping(asg, contestId, userId, t) ==
    { IF Matches(r, contestId, userId)
      THEN [r EXCEPT !.camping_violation = 0, !.last_move_at = t]
      ELSE r : r \in asg }

\* UPDATE ... SET camping_violation = 1
SetCamping(asg, contestId, userId) ==
    { IF Matches(r, contestId, userId) THEN [r EXCEPT !.camping_violation = 1]
      ELSE r : r \in asg }

\* The ghost branch comparing the elapsed time with the threshold inclusively.
GhostUpdateAtThreshold(asg, inbox, contestId, assignment, lat, t) ==
    LET userId        == assignment.user_id
        previousLat   == assignment.last_location_lat
        previousMove  == IF assignment.last_move_at = NULL \/ assignment.last_move_at = 0
                         THEN t ELSE assignment.last_move_at
        movedDistance == distanceKm(previousLat, lat)
    IN  IF movedDistance > CONTEST_CAMPING_DISTANCE_KM
        THEN [asg   |-> ClearCamping(asg, contestId, userId, t),
              inbox |-> inbox]
        ELSE IF t - previousMove >= CONTEST_CAMPING_THRESHOLD_MS
        THEN [asg   |-> SetCamping(asg, contestId, userId),
              inbox |-> createInboxEntry(inbox, userId, userId, NULL,
                                         "contest_warning", t)]
        ELSE [asg |-> asg, inbox |-> inbox]

\* The ghost branch counting every change of position as a move.
GhostUpdateAnyMove(asg, inbox, contestId, assignment, lat, t) ==
    LET userId        == assignment.user_id
        previousLat   == assignment.last_location_lat
        previousMove  == IF assignment.last_move_at = NULL \/ assignment.last_move_at = 0
                         THEN t ELSE assignment.last_move_at
        movedDistance == distanceKm(previousLat, lat)
    IN  IF movedDistance > 0
        THEN [asg   |-> ClearCamping(asg, contestId, userId, t),
              inbox |-> inbox]
        ELSE IF t - previousMove > CONTEST_CAMPING_THRESHOLD_MS
        THEN [asg   |-> SetCamping(asg, contestId, userId),
              inbox |-> createInboxEntry(inbox, userId, userId, NULL,
                                         "contest_warning", t)]
        ELSE [asg |-> asg, inbox |-> inbox]

\* The ghost branch, on the row as it was read before the first UPDATE.
GhostUpdate(asg, inbox, contestId, assignment, lat, t) ==
    LET userId        == assignment.user_id
        previousLat   == assignment.last_location_lat
        previousMove  == IF assignment.last_move_at = NULL \/ assignment.last_move_at = 0
                         THEN t ELSE assignment.last_move_at
        movedDistance == distanceKm(previousLat, lat)
    IN  IF movedDistance > CONTEST_CAMPING_DISTANCE_KM
        THEN [asg   |-> ClearCamping(asg, contestId, userId, t),
              inbox |-> inbox]
        ELSE IF t - previousMove > CONTEST_CAMPING_THRESHOLD_MS
        THEN [asg   |-> SetCamping(asg, contestId, userId),
              inbox |-> createInboxEntry(inbox, userId, userId, NULL,
                                         "contest_warning", t)]
        ELSE [asg |-> asg, inbox |-> inbox]

\* The lookup without its sender_id condition: the most recent
\* contest_alert of the recipient about any ghost.
RecentAlertAnyGhost(inbox, recipientId, senderId) ==
    LET hits == { i \in 1..Len(inbox) :
                    /\ inbox[i].recipient_id = recipientId
                    /\ inbox[i].type = "contest_alert" }
    IN  IF hits = {} THEN {}
        ELSE { Max({ inbox[i].created_at : i \in hits }) }

\* The most recent contest_alert the inbox holds for (recipient, sender), as
\* a set: empty when there is none.
RecentAlert(inbox, recipientId, senderId) ==
    LET hits == { i \in 1..Len(inbox) :
                    /\ inbox[i].recipient_id = recipientId
                    /\ inbox[i].sender_id = senderId
                    /\ inbox[i].type = "contest_alert" }
    IN  IF hits = {} THEN {}
        ELSE { Max({ inbox[i].created_at : i \in hits }) }

\* The test without the cooldown.
AlertAlwaysDue(recent, t) == TRUE

\* The test that lets a new alert through.
AlertDue(recent, t) ==
    recent = {} \/ \E c \in recent : t - c > CONTEST_ALERT_COOLDOWN_MS

RECURSIVE HunterScanNotifiesGhost(_, _, _, _, _, _)
\* The loop addressing each alert to the ghost it is about.
HunterScanNotifiesGhost(ghosts, inbox, usr, userId, lat, t) ==
    IF ghosts = << >> THEN inbox
    ELSE LET g        == Head(ghosts)
             distance == distanceKm(lat, usr[g].location_lat)
             next     == IF /\ distance <= CONTEST_PROXIMITY_KM
                            /\ AlertDue(RecentAlert(inbox, userId, g), t)
                         THEN createInboxEntry(inbox, g, userId, NULL, "contest_alert", t)
                         ELSE inbox
         IN  HunterScanNotifiesGhost(Tail(ghosts), next, usr, userId, lat, t)

RECURSIVE HunterScan(_, _, _, _, _, _)
\* The loop over the surviving ghosts, each with the location the users
\* table holds for it.
HunterScan(ghosts, inbox, usr, userId, lat, t) ==
    IF ghosts = << >> THEN inbox
    ELSE LET g        == Head(ghosts)
             distance == distanceKm(lat, usr[g].location_lat)
             next     == IF /\ distance <= CONTEST_PROXIMITY_KM
                            /\ AlertDue(RecentAlert(inbox, userId, g), t)
                         THEN createInboxEntry(inbox, userId, g, NULL, "contest_alert", t)
                         ELSE inbox
         IN  HunterScan(Tail(ghosts), next, usr, userId, lat, t)

\* The SELECT of the hunter branch without its survival_flag condition.
SurvivingGhostIdsAll(asg, contestId) ==
    { r.user_id : r \in { x \in RowsOf(asg, contestId) : x.role = "ghost" } }

\* The SELECT of the hunter branch restricted to ghosts whose row holds a
\* position.
SurvivingGhostIdsLocated(asg, contestId) ==
    { r.user_id : r \in { x \in RowsOf(asg, contestId) :
                            /\ x.role = "ghost" /\ x.survival_flag = 1
                            /\ x.last_location_lat # NULL } }

\* The SELECT of the hunter branch: ghosts of the contest that still survive.
SurvivingGhostIds(asg, contestId) ==
    { r.user_id : r \in { x \in RowsOf(asg, contestId) :
                            x.role = "ghost" /\ x.survival_flag = 1 } }

\* handleContestLocationUpdate without the return for a user who has no
\* assignment: such a user is scanned for nearby ghosts like a hunter.
LocationUpdateUnguarded(asg, inbox, usr, contestId, userId, lat, t) ==
    LET mine   == RowsOfUser(asg, contestId, userId)
        stored == StoreLocation(asg, contestId, userId, lat, t)
    IN  IF \E r \in mine : r.role = "ghost"
        THEN GhostUpdate(stored, inbox, contestId, CHOOSE r \in mine : TRUE, lat, t)
        ELSE [asg   |-> stored,
              inbox |-> HunterScan(SortedSeq(SurvivingGhostIds(stored, contestId)),
                                   inbox, usr, userId, lat, t)]

\* handleContestLocationUpdate running the ghost branch for every
\* participant.
LocationUpdateAllCamp(asg, inbox, usr, contestId, userId, lat, t) ==
    LET mine == RowsOfUser(asg, contestId, userId)
    IN  IF mine = {} THEN [asg |-> asg, inbox |-> inbox]
        ELSE GhostUpdate(StoreLocation(asg, contestId, userId, lat, t), inbox,
                         contestId, CHOOSE r \in mine : TRUE, lat, t)

\* The part of handleContestLocationUpdate after ensureActiveContest.
LocationUpdate(asg, inbox, usr, contestId, userId, lat, t) ==
    LET mine == RowsOfUser(asg, contestId, userId)
    IN  IF mine = {} THEN [asg |-> asg, inbox |-> inbox]
        ELSE LET assignment == CHOOSE r \in mine : TRUE
                 stored     == StoreLocation(asg, contestId, userId, lat, t)
             IN  IF assignment.role = "ghost"
                 THEN GhostUpdate(stored, inbox, contestId, assignment, lat, t)
                 ELSE IF assignment.role # "hunter"
                 THEN [asg |-> stored, inbox |-> inbox]
                 ELSE [asg   |-> stored,
                       inbox |-> HunterScan(SortedSeq(SurvivingGhostIds(stored, contestId)),
                                            inbox, usr, userId, lat, t)]

----------------------------------------------------------------------------
(* handleContestCapture *)

\* The three checks with the role checks made before the challenge check.
CaptureErrorRolesFirst(asg, contest, hunterId, ghostId, challenge) ==
    LET hunterAssignment == RowsOfUser(asg, contest.id, hunterId)
        ghostAssignment  == RowsOfUser(asg, contest.id, ghostId)
    IN  IF ~ \E r \in hunterAssignment : r.role = "hunter" THEN "hunter"
        ELSE IF ~ \E r \in ghostAssignment : r.role = "ghost" THEN "ghost"
        ELSE IF contest.challenge # challenge THEN "challenge"
        ELSE ""

\* The checks without the challenge check.
CaptureErrorRolesOnly(asg, contest, hunterId, ghostId, challenge) ==
    LET hunterAssignment == RowsOfUser(asg, contest.id, hunterId)
        ghostAssignment  == RowsOfUser(asg, contest.id, ghostId)
    IN  IF ~ \E r \in hunterAssignment : r.role = "hunter" THEN "hunter"
        ELSE IF ~ \E r \in ghostAssignment : r.role = "ghost" THEN "ghost"
        ELSE ""

\* The checks without the check of the target's row.
CaptureErrorTargetUnchecked(asg, contest, hunterId, ghostId, challenge) ==
    LET hunterAssignment == RowsOfUser(asg, contest.id, hunterId)
    IN  IF contest.challenge # challenge THEN "challenge"
        ELSE IF ~ \E r \in hunterAssignment : r.role = "hunter" THEN "hunter"
        ELSE ""

\* The three checks, in the order the code makes them; "" when all pass.
CaptureError(asg, contest, hunterId, ghostId, challenge) ==
    LET hunterAssignment == RowsOfUser(asg, contest.id, hunterId)
        ghostAssignment  == RowsOfUser(asg, contest.id, ghostId)
    IN  IF contest.challenge # challenge THEN "challenge"
        ELSE IF ~ \E r \in hunterAssignment : r.role = "hunter" THEN "hunter"
        ELSE IF ~ \E r \in ghostAssignment : r.role = "ghost" THEN "ghost"
        ELSE ""

\* The captures UPDATE without its user_id condition.
AddCaptureEveryRow(asg, contestId, hunterId) ==
    { IF r.contest_id = contestId THEN [r EXCEPT !.captures = r.captures + 1]
      ELSE r : r \in asg }

\* The capture without its captures UPDATE.
AddCaptureSkipped(asg, contestId, hunterId) == asg

\* UPDATE ... SET captures = captures + 1
AddCapture(asg, contestId, hunterId) ==
    { IF Matches(r, contestId, hunterId) THEN [r EXCEPT !.captures = r.captures + 1]
      ELSE r : r \in asg }

\* The survival UPDATE turning the captured ghost into a hunter as well.
ClearSurvivalTurnsHunter(asg, contestId, ghostId) ==
    { IF Matches(r, contestId, ghostId)
      THEN [r EXCEPT !.survival_flag = 0, !.role = "hunter"]
      ELSE r : r \in asg }

\* UPDATE ... SET survival_flag = 0
ClearSurvival(asg, contestId, ghostId) ==
    { IF Matches(r, contestId, ghostId) THEN [r EXCEPT !.survival_flag = 0]
      ELSE r : r \in asg }

\* The two UPDATEs of a capture that passed the checks.
CaptureRows(asg, contestId, hunterId, ghostId) ==
    ClearSurvival(AddCapture(asg, contestId, hunterId), contestId, ghostId)

\* handleContestCapture making its writes before its checks: a rejected
\* submission has recorded the capture all the same.
CaptureWritesFirst(asg, caps, inbox, contest, hunterId, ghostId, postId, challenge, t) ==
    [error |-> CaptureError(asg, contest, hunterId, ghostId, challenge),
     asg   |-> CaptureRows(asg, contest.id, hunterId, ghostId),
     caps  |-> Append(caps, [contest_id |-> contest.id, hunter_id |-> hunterId,
                             ghost_id |-> ghostId, post_id |-> postId,
                             challenge |-> challenge, created_at |-> t]),
     inbox |-> createInboxEntry(
                   createInboxEntry(inbox, hunterId, ghostId, postId,
                                    "contest_capture", t),
                   ghostId, hunterId, postId, "contest_captured", t)]

\* The part of handleContestCapture after ensureActiveContest: the error it
\* throws ("" for none) and the three tables after it.
Capture(asg, caps, inbox, contest, hunterId, ghostId, postId, challenge, t) ==
    LET error == CaptureError(asg, contest, hunterId, ghostId, challenge)
    IN  IF error # ""
        THEN [error |-> error, asg |-> asg, caps |-> caps, inbox |-> inbox]
        ELSE [error |-> "",
              asg   |-> CaptureRows(asg, contest.id, hunterId, ghostId),
              caps  |-> Append(caps, [contest_id |-> contest.id, hunter_id |-> hunterId,
                                      ghost_id |-> ghostId, post_id |-> postId,
                                      challenge |-> challenge, created_at |-> t]),
              inbox |-> createInboxEntry(
                            createInboxEntry(inbox, hunterId, ghostId, postId,
                                             "contest_capture", t),
                            ghostId, hunterId, postId, "contest_captured", t)]

----------------------------------------------------------------------------
(* The state after initializeDatabase: seedIfNeeded has written three
   accounts (Ari, Mina, Devon), three posts and one inbox drop per post.
   No contest row exists until the first request. *)

SeedUsers ==
    [u \in 1..3 |-> [bekandid_enabled |-> 0, location_lat |-> SeedLat[u]]]

SeedPosts ==
    << [id |-> 1, author_id |-> 1, recipient_id |-> 2, created_at |-> StartNow - 45 * 60000],
       [id |-> 2, author_id |-> 2, recipient_id |-> 3, created_at |-> StartNow - 120 * 60000],
       [id |-> 3, author_id |-> 3, recipient_id |-> 1, created_at |-> StartNow - 220 * 60000] >>

SeedInbox ==
    [i \in 1..3 |-> [recipient_id |-> SeedPosts[i].recipient_id,
                     sender_id |-> SeedPosts[i].author_id,
                     post_id |-> SeedPosts[i].id, type |-> "drop",
                     created_at |-> SeedPosts[i].created_at]]

\* The requests that may be in flight at once.
Procs == { 1, 2 }

\* A request that has not started: no contest row read, no result of the
\* two SELECTs on users (`participants` the ids the first returned,
\* `bekandid` the users table as the second saw it), no rows left to insert.
Idle ==
    [pc |-> "idle", op |-> "state", contestId |-> NULL, participants |-> {},
     bekandid |-> << >>, rows |-> {}, toInsert |-> << >>]

Response(op, userId, status, error, sync) ==
    [op |-> op, userId |-> userId, status |-> status, error |-> error, sync |-> sync]

Init ==
    /\ now = StartNow
    /\ users = SeedUsers
    /\ posts = SeedPosts
    /\ inbox_messages = SeedInbox
    /\ contest_weeks = {}
    /\ contest_assignments = {}
    /\ contest_captures = << >>
    /\ response = Response("init", NULL, 0, "", "none")
    /\ requests = [p \in Procs |-> Idle]

----------------------------------------------------------------------------
(* The requests *)

\* buildState, which every handler ends with: it calls ensureActiveContest
\* and reads the tables.  `weeks` and `asg` are the two contest tables as the
\* handler has left them; `usr` is the users table after the handler's writes.
\* `drawn` is the outcome of the challenge draw, should the request make one.
buildState(weeks, asg, usr, resp, drawn) ==
    \E b \in ensureActiveContest(weeks, asg, usr, now, drawn) :
        /\ contest_weeks' = b.contest_weeks
        /\ contest_assignments' = b.contest_assignments
        /\ response' = resp

\* The wall clock advances by d milliseconds between two requests.
Tick(d) ==
    /\ now' = now + d
    /\ response' = Response("tick", NULL, 0, "", "none")
    /\ UNCHANGED <<users, posts, inbox_messages, contest_weeks, contest_assignments,
                   contest_captures, requests>>

\* GET /api/state (and every other route that only calls buildState).
GetState(drawn) ==
    /\ \E e \in ensureActiveContest(contest_weeks, contest_assignments, users, now, drawn) :
          /\ contest_weeks' = e.contest_weeks
          /\ contest_assignments' = e.contest_assignments
          /\ response' = Response("state", NULL, 200, "", e.sync)
    /\ UNCHANGED <<now, users, posts, inbox_messages, contest_captures, requests>>

\* POST /api/auth/signup: the account is inserted with no location.
Signup(drawn) ==
    LET id == Cardinality(DOMAIN users) + 1
    IN  /\ id <= MaxUsers
        /\ users' = [u \in DOMAIN users \cup { id } |->
                        IF u = id THEN [bekandid_enabled |-> 0, location_lat |-> NULL]
                        ELSE users[u]]
        /\ \E e \in ensureActiveContest(contest_weeks, contest_assignments, users', now, drawn) :
              /\ contest_weeks' = e.contest_weeks
              /\ contest_assignments' = e.contest_assignments
              /\ response' = Response("signup", id, 201, "", e.sync)
        /\ UNCHANGED <<now, posts, inbox_messages, contest_captures, requests>>

\* POST /api/users/me/bekandid: enabled = 1 opts the user out of the contest.
SetBekandid(u, enabled, drawn) ==
    /\ users' = [users EXCEPT ![u].bekandid_enabled = enabled]
    /\ \E e \in ensureActiveContest(contest_weeks, contest_assignments, users', now, drawn) :
          buildState(e.contest_weeks, e.contest_assignments, users',
                     Response("bekandid", u, 200, "", e.sync), drawn)
    /\ UNCHANGED <<now, posts, inbox_messages, contest_captures, requests>>

\* The route with the assignment looked up in the table as the request
\* found it, the sync running only afterwards.
UpdateLocationLookupFirst(u, lat, drawn) ==
    /\ users' = [users EXCEPT ![u].location_lat = lat]
    /\ LET found == WeeksAt(contest_weeks, getContestWindow(now).startsAt)
           r     == IF found = {}
                    THEN [asg |-> contest_assignments, inbox |-> inbox_messages]
                    ELSE LocationUpdate(contest_assignments, inbox_messages, users',
                                        (CHOOSE w \in found : TRUE).id, u, lat, now)
       IN  /\ inbox_messages' = r.inbox
           /\ buildState(contest_weeks, r.asg, users',
                         Response("location", u, 200, "", "none"), drawn)
    /\ UNCHANGED <<now, posts, contest_captures, requests>>

\* POST /api/users/me/location
UpdateLocation(u, lat, drawn) ==
    /\ users' = [users EXCEPT ![u].location_lat = lat]
    /\ \E e \in ensureActiveContest(contest_weeks, contest_assignments, users', now, drawn) :
          LET r == LocationUpdate(e.contest_assignments, inbox_messages, users',
                                  e.contest.id, u, lat, now)
          IN  /\ inbox_messages' = r.inbox
              /\ buildState(e.contest_weeks, r.asg, users',
                            Response("location", u, 200, "", e.sync), drawn)
    /\ UNCHANGED <<now, posts, contest_captures, requests>>

\* The route calling handleContestCapture on every post, flagged or not.
CreatePostAlwaysCaptures(u, recipientId, contestCapture, challenge, drawn) ==
    LET postId == Len(posts) + 1
        drop   == createInboxEntry(inbox_messages, recipientId, u, postId,
                                   IF users[recipientId].bekandid_enabled = 1
                                   THEN "bekandid_drop" ELSE "drop", now)
    IN  /\ posts' = Append(posts, [id |-> postId, author_id |-> u,
                                   recipient_id |-> recipientId, created_at |-> now])
        /\ \E e \in ensureActiveContest(contest_weeks, contest_assignments, users, now, drawn) :
              LET c == Capture(e.contest_assignments, contest_captures, drop,
                               e.contest, u, recipientId, postId, challenge, now)
              IN  /\ inbox_messages' = c.inbox
                  /\ contest_captures' = c.caps
                  /\ IF c.error # ""
                     THEN /\ contest_weeks' = e.contest_weeks
                          /\ contest_assignments' = c.asg
                          /\ response' = Response("post", u, 400, c.error, e.sync)
                     ELSE buildState(e.contest_weeks, c.asg, users,
                                     Response("post", u, 201, "", e.sync), drawn)
        /\ UNCHANGED <<now, users, requests>>

\* POST /api/posts: the post and the recipient's inbox drop are written
\* first; handleContestCapture runs only when the capture flag is set, and
\* what it throws becomes a 400 answer with no buildState.
CreatePost(u, recipientId, contestCapture, challenge, drawn) ==
    LET postId == Len(posts) + 1
        drop   == createInboxEntry(inbox_messages, recipientId, u, postId,
                                   IF users[recipientId].bekandid_enabled = 1
                                   THEN "bekandid_drop" ELSE "drop", now)
    IN  /\ posts' = Append(posts, [id |-> postId, author_id |-> u,
                                   recipient_id |-> recipientId, created_at |-> now])
        /\ IF contestCapture
           THEN \E e \in ensureActiveContest(contest_weeks, contest_assignments, users, now, drawn) :
                  LET c == Capture(e.contest_assignments, contest_captures, drop,
                                   e.contest, u, recipientId, postId, challenge, now)
                  IN  /\ inbox_messages' = c.inbox
                      /\ contest_captures' = c.caps
                      /\ IF c.error # ""
                         THEN /\ contest_weeks' = e.contest_weeks
                              /\ contest_assignments' = c.asg
                              /\ response' = Response("post", u, 400, c.error, e.sync)
                         ELSE buildState(e.contest_weeks, c.asg, users,
                                         Response("post", u, 201, "", e.sync), drawn)
           ELSE /\ inbox_messages' = drop
                /\ contest_captures' = contest_captures
                /\ \E e \in ensureActiveContest(contest_weeks, contest_assignments, users, now, drawn) :
                      /\ contest_weeks' = e.contest_weeks
                      /\ contest_assignments' = e.contest_assignments
                      /\ response' = Response("post", u, 201, "", e.sync)
        /\ UNCHANGED <<now, users, requests>>

----------------------------------------------------------------------------
(* buildState: the contest view *)

\* The orders in which SELECT * FROM contest_assignments WHERE contest_id = ?
\* may return the rows of the contest (the statement has no ORDER BY).
assignmentRows(asg, contestId) ==
    { [i \in 1..Len(order) |-> CHOOSE r \in RowsOfUser(asg, contestId, order[i]) : TRUE]
      : order \in shuffle(SortedSeq({ r.user_id : r \in RowsOf(asg, contestId) })) }

RECURSIVE InsertByCaptures(_, _)
\* One step of the stable sort with the comparator b.captures - a.captures:
\* the row goes behind every row that has at least as many captures.
InsertByCaptures(sorted, row) ==
    IF sorted = << >> THEN << row >>
    ELSE IF Head(sorted).captures >= row.captures
    THEN << Head(sorted) >> \o InsertByCaptures(Tail(sorted), row)
    ELSE << row >> \o sorted

RECURSIVE SortByCaptures(_)
\* rows.sort((a, b) => b.captures - a.captures)
SortByCaptures(rows) ==
    IF rows = << >> THEN << >>
    ELSE InsertByCaptures(SortByCaptures(SubSeq(rows, 1, Len(rows) - 1)), rows[Len(rows)])

\* hunterLeaderboard: the hunter rows, sorted, as (userId, captures) entries.
hunterLeaderboard(rows) ==
    LET sorted == SortByCaptures(SelectSeq(rows, LAMBDA r : r.role = "hunter"))
    IN  [i \in 1..Len(sorted) |-> [userId |-> sorted[i].user_id,
                                   captures |-> sorted[i].captures]]

\* The filter without its camping_violation condition.
survivingGhostsWithCampers(rows) ==
    LET kept == SelectSeq(rows, LAMBDA r : r.role = "ghost" /\ r.survival_flag = 1)
    IN  [i \in 1..Len(kept) |-> kept[i].user_id]

\* survivingGhosts: the ids of the ghost rows with survival_flag set and
\* camping_violation clear.
survivingGhosts(rows) ==
    LET kept == SelectSeq(rows, LAMBDA r : /\ r.role = "ghost"
                                           /\ r.survival_flag = 1
                                           /\ r.camping_violation = 0)
    IN  [i \in 1..Len(kept) |-> kept[i].user_id]

----------------------------------------------------------------------------
(* Requests in flight.  A handler awaits every storage call, so the calls
   of two requests interleave: each action below is one request advancing
   by one storage call of ensureActiveContest and syncContestAssignments. *)

\* The storage layer refuses a contest_weeks row whose starts_at is stored.
WeekRejected(weeks, row) == \E w \in weeks : w.starts_at = row.starts_at

\* A storage layer with no key on (contest_id, user_id).
AssignmentNeverRejected(asg, row) == FALSE

\* The storage layer refuses a contest_assignments row whose
\* (contest_id, user_id) is stored.
AssignmentRejected(asg, row) ==
    \E r \in asg : r.contest_id = row.contest_id /\ r.user_id = row.user_id

InFlight(p) == requests[p].pc \notin { "idle", "done", "failed" }

\* The request moves to its next storage call.
Goto(p, pc) == requests' = [requests EXCEPT ![p].pc = pc]

\* A route that only reads: the request enters ensureActiveContest.
BeginRead(p) ==
    /\ requests[p].pc = "idle"
    /\ requests' = [requests EXCEPT ![p] = [Idle EXCEPT !.pc = "selectWeek", !.op = "state"]]
    /\ UNCHANGED <<now, users, posts, inbox_messages, contest_weeks, contest_assignments,
                   contest_captures, response>>

\* POST /api/users/me/bekandid: the UPDATE of the users row, after which
\* the request enters ensureActiveContest.
BeginBekandid(p, u, enabled) ==
    /\ requests[p].pc = "idle"
    /\ users' = [users EXCEPT ![u].bekandid_enabled = enabled]
    /\ requests' = [requests EXCEPT ![p] = [Idle EXCEPT !.pc = "selectWeek", !.op = "bekandid"]]
    /\ UNCHANGED <<now, posts, inbox_messages, contest_weeks, contest_assignments,
                   contest_captures, response>>

\* POST /api/auth/signup: the INSERT of the users row, after which the
\* request enters ensureActiveContest.
BeginSignup(p) ==
    LET id == Cardinality(DOMAIN users) + 1
    IN  /\ requests[p].pc = "idle"
        /\ id <= MaxUsers
        /\ users' = [u \in DOMAIN users \cup { id } |->
                        IF u = id THEN [bekandid_enabled |-> 0, location_lat |-> NULL]
                        ELSE users[u]]
        /\ requests' = [requests EXCEPT ![p] = [Idle EXCEPT !.pc = "selectWeek",
                                                            !.op = "signup"]]
        /\ UNCHANGED <<now, posts, inbox_messages, contest_weeks, contest_assignments,
                       contest_captures, response>>

\* SELECT * FROM contest_weeks WHERE starts_at = ?
SelectWeek(p) ==
    /\ requests[p].pc = "selectWeek"
    /\ LET found == WeeksAt(contest_weeks, getContestWindow(now).startsAt)
       IN  IF found = {} THEN Goto(p, "insertWeek")
           ELSE requests' = [requests EXCEPT ![p].pc = "selectParticipants",
                                             ![p].contestId = (CHOOSE w \in found : TRUE).id]
    /\ UNCHANGED <<now, users, posts, inbox_messages, contest_weeks, contest_assignments,
                   contest_captures, response>>

\* INSERT INTO contest_weeks; a refused insert rejects the promise and the
\* request ends in the route's catch.
InsertWeek(p, drawn) ==
    /\ requests[p].pc = "insertWeek"
    /\ LET window  == getContestWindow(now)
           contest == [id |-> Cardinality(contest_weeks) + 1, starts_at |-> window.startsAt,
                       ends_at |-> window.endsAt, challenge |-> drawn]
       IN  IF WeekRejected(contest_weeks, contest)
           THEN Goto(p, "failed") /\ UNCHANGED contest_weeks
           ELSE /\ contest_weeks' = contest_weeks \cup { contest }
                /\ requests' = [requests EXCEPT ![p].pc = "selectParticipants",
                                                ![p].contestId = contest.id]
    /\ UNCHANGED <<now, users, posts, inbox_messages, contest_assignments,
                   contest_captures, response>>

\* SELECT id FROM users WHERE bekandid_enabled = 0
SelectParticipants(p) ==
    /\ requests[p].pc = "selectParticipants"
    /\ requests' = [requests EXCEPT ![p].pc = "selectBekandid",
                                    ![p].participants = Participants(users)]
    /\ UNCHANGED <<now, users, posts, inbox_messages, contest_weeks, contest_assignments,
                   contest_captures, response>>

\* SELECT id FROM users WHERE bekandid_enabled = 1; the DELETE is skipped
\* when the list is empty.
SelectBekandid(p) ==
    /\ requests[p].pc = "selectBekandid"
    /\ requests' = [requests EXCEPT ![p].pc = IF Bekandid(users) = {} THEN "selectExisting"
                                              ELSE "delete",
                                    ![p].bekandid = users]
    /\ UNCHANGED <<now, users, posts, inbox_messages, contest_weeks, contest_assignments,
                   contest_captures, response>>

\* DELETE FROM contest_assignments WHERE contest_id = ? AND user_id IN (...)
DeleteBekandid(p) ==
    /\ requests[p].pc = "delete"
    /\ contest_assignments' =
          Retract(contest_assignments, requests[p].contestId, requests[p].bekandid)
    /\ Goto(p, "selectExisting")
    /\ UNCHANGED <<now, users, posts, inbox_messages, contest_weeks,
                   contest_captures, response>>

\* The rows a sync will insert, given what its SELECTs returned, and the
\* order it inserts them in: every outcome of the shuffle when the week has
\* no row, the join otherwise.
InsertPlans(existing, participants, contestId, t) ==
    LET ids         == SortedSeq(participants)
        assignedSet == { r.user_id : r \in existing }
        toAssign    == SelectSeq(ids, LAMBDA u : u \notin assignedSet)
    IN  IF existing = {}
        THEN { [rows |-> PartitionRows(contestId, shuffled, t), order |-> shuffled]
               : shuffled \in shuffle(ids) }
        ELSE { [rows  |-> JoinRows(toAssign, CountRole(existing, "hunter"),
                                   CountRole(existing, "ghost"), contestId, t),
                order |-> toAssign] }

\* SELECT * FROM contest_assignments WHERE contest_id = ?, and the choice of
\* branch and roles that follows it without another storage call.
SelectExisting(p) ==
    /\ requests[p].pc = "selectExisting"
    /\ \E plan \in InsertPlans(RowsOf(contest_assignments, requests[p].contestId),
                               requests[p].participants, requests[p].contestId, now) :
          LET toInsert == SelectSeq(plan.order,
                                    LAMBDA u : \E r \in plan.rows : r.user_id = u)
          IN  requests' = [requests EXCEPT ![p].pc = IF toInsert = << >> THEN "done"
                                                     ELSE "insert",
                                           ![p].rows = plan.rows,
                                           ![p].toInsert = toInsert]
    /\ UNCHANGED <<now, users, posts, inbox_messages, contest_weeks, contest_assignments,
                   contest_captures, response>>

\* One INSERT INTO contest_assignments of the loop; a refused insert ends
\* the request in the route's catch, the rows inserted so far staying.
InsertAssignment(p) ==
    /\ requests[p].pc = "insert"
    /\ LET row == CHOOSE r \in requests[p].rows : r.user_id = Head(requests[p].toInsert)
           rest == Tail(requests[p].toInsert)
       IN  IF AssignmentRejected(contest_assignments, row)
           THEN Goto(p, "failed") /\ UNCHANGED contest_assignments
           ELSE /\ contest_assignments' = contest_assignments \cup { row }
                /\ requests' = [requests EXCEPT ![p].pc = IF rest = << >> THEN "done"
                                                          ELSE "insert",
                                                ![p].toInsert = rest]
    /\ UNCHANGED <<now, users, posts, inbox_messages, contest_weeks,
                   contest_captures, response>>

\* A storage call of the request fails: the promise rejects and the request
\* ends in the route's catch, what it wrote so far staying.
StorageFailure(p) ==
    /\ InFlight(p)
    /\ Goto(p, "failed")
    /\ UNCHANGED <<now, users, posts, inbox_messages, contest_weeks, contest_assignments,
                   contest_captures, response>>

\* The answer is sent: 200 after a completed sync, 500 from the catch.
Respond(p) ==
    /\ requests[p].pc \in { "done", "failed" }
    /\ response' = IF requests[p].pc = "done"
                   THEN Response(requests[p].op, NULL, 200, "", "none")
                   ELSE Response(requests[p].op, NULL, 500, "storage", "none")
    /\ requests' = [requests EXCEPT ![p] = Idle]
    /\ UNCHANGED <<now, users, posts, inbox_messages, contest_weeks, contest_assignments,
                   contest_captures>>

----------------------------------------------------------------------------
(* Specifications *)

TickSteps == { CONTEST_ALERT_COOLDOWN_MS, CONTEST_CAMPING_THRESHOLD_MS }

\* Every request and every passage of time.
Next ==
    \/ \E d \in TickSteps \cup { CONTEST_DURATION_MS } : Tick(d)
    \/ \E x \in Draws : GetState(x)
    \/ \E x \in Draws : Signup(x)
    \/ \E u \in DOMAIN users, enabled \in { 0, 1 }, x \in Draws : SetBekandid(u, enabled, x)
    \/ \E u \in DOMAIN users, lat \in Positions, x \in Draws : UpdateLocation(u, lat, x)
    \/ \E u \in DOMAIN users, g \in DOMAIN users, f \in BOOLEAN, c \in Draws, x \in Draws :
          CreatePost(u, g, f, c, x)

Spec == Init /\ [][Next]_vars

\* Eligibility and roles over several weeks: opt-outs, opt-ins, plain reads,
\* and the clock moving one contest length at a time.
NextRoles ==
    \/ now + CONTEST_DURATION_MS <= StartNow + MaxWeeks * CONTEST_DURATION_MS
         /\ Tick(CONTEST_DURATION_MS)
    \/ \E x \in OneDraw : GetState(x)
    \/ \E u \in DOMAIN users, enabled \in { 0, 1 }, x \in OneDraw : SetBekandid(u, enabled, x)

SpecRoles == Init /\ [][NextRoles]_vars

\* Location updates inside one afternoon.
NextLocation ==
    \/ \E d \in TickSteps : now + d <= MaxNow /\ Tick(d)
    \/ Len(inbox_messages) < MaxInbox
         /\ \E u \in Movers, lat \in Positions, x \in OneDraw : UpdateLocation(u, lat, x)

SpecLocation == Init /\ [][NextLocation]_vars

\* Capture submissions, with opt-outs and opt-ins between them.
NextCapture ==
    \/ Len(posts) < MaxPosts
         /\ \E u \in DOMAIN users, g \in DOMAIN users, c \in Draws, x \in Draws :
               CreatePost(u, g, TRUE, c, x)
    \/ \E u \in Togglers, enabled \in { 0, 1 }, x \in Draws : SetBekandid(u, enabled, x)

SpecCapture == Init /\ [][NextCapture]_vars

\* Capture submissions with the week's challenge, opt-out and opt-in of one
\* user, and location reports of every user: the requests that rewrite
\* assignment rows while the week is live.
NextSurvival ==
    \/ Len(posts) < MaxSurvivalPosts
         /\ \E u \in DOMAIN users, g \in DOMAIN users, x \in OneDraw :
               CreatePost(u, g, TRUE, x, x)
    \/ \E u \in Togglers, enabled \in { 0, 1 }, x \in OneDraw : SetBekandid(u, enabled, x)
    \/ \E u \in DOMAIN users, x \in OneDraw : UpdateLocation(u, SeedLat[1], x)

SpecSurvival == Init /\ [][NextSurvival]_vars

\* The clock walks through each day at 08:00:00.000, 19:59:59.000,
\* 19:59:59.999 and 20:00:00.000, and a plain read may be served at each of
\* these instants: getContestWindow is applied on both sides of every
\* 20:00 UTC, the Sunday one included.
NextWindow ==
    \/ /\ now % DAY_MS = 8 * HOUR_MS
       /\ Tick(12 * HOUR_MS - 1000)
    \/ /\ now % DAY_MS = 20 * HOUR_MS - 1000
       /\ Tick(999)
    \/ /\ now % DAY_MS = 20 * HOUR_MS - 1
       /\ Tick(1)
    \/ /\ now % DAY_MS = 20 * HOUR_MS
       /\ now + 12 * HOUR_MS <= StartNow + MaxWindowDays * DAY_MS
       /\ Tick(12 * HOUR_MS)
    \/ \E x \in OneDraw : GetState(x)

SpecWindow == Init /\ [][NextWindow]_vars

\* Capture submissions with the week's challenge between opt-outs and
\* opt-ins of two users, and location reports of one of them.
NextTenure ==
    \/ Len(posts) < MaxSurvivalPosts
         /\ \E u \in DOMAIN users, g \in DOMAIN users, x \in OneDraw :
               CreatePost(u, g, TRUE, x, x)
    \/ \E u \in Leavers, enabled \in { 0, 1 }, x \in OneDraw : SetBekandid(u, enabled, x)
    \/ \E u \in Togglers, x \in OneDraw : UpdateLocation(u, SeedLat[1], x)

SpecTenure == Init /\ [][NextTenure]_vars

\* One storage call of one request in flight.
Step(p) ==
    \/ SelectWeek(p)
    \/ \E x \in OneDraw : InsertWeek(p, x)
    \/ SelectParticipants(p)
    \/ SelectBekandid(p)
    \/ DeleteBekandid(p)
    \/ SelectExisting(p)
    \/ InsertAssignment(p)
    \/ Respond(p)

\* Two requests at once inside one window, one of them possibly switching
\* BeKandid mode of a user.
NextConcurrent ==
    \/ \E p \in Procs : BeginRead(p)
    \/ \E u \in Togglers, enabled \in { 0, 1 } : BeginBekandid(1, u, enabled)
    \/ \E p \in Procs : Step(p)

SpecConcurrent == Init /\ [][NextConcurrent]_vars

\* One request at a time, any storage call of which may fail.
NextFailure ==
    \/ BeginRead(1)
    \/ \E u \in Leavers, enabled \in { 0, 1 } : BeginBekandid(1, u, enabled)
    \/ Step(1)
    \/ StorageFailure(1)

SpecFailure == Init /\ [][NextFailure]_vars

\* The first requests of a week at once, no user being opted out.
NextRace ==
    \/ \E p \in Procs : BeginRead(p)
    \/ \E p \in Procs : SelectWeek(p)
    \/ \E p \in Procs, x \in OneDraw : InsertWeek(p, x)
    \/ \E p \in Procs : SelectParticipants(p)
    \/ \E p \in Procs : SelectBekandid(p)
    \/ \E p \in Procs : SelectExisting(p)
    \/ \E p \in Procs : InsertAssignment(p)
    \/ \E p \in Procs : Respond(p)

SpecRace == Init /\ [][NextRace]_vars

\* A week that several eligible users enter at once: a first request that
\* a storage failure cuts short after some of its inserts, and the signups
\* and reads that follow it some hours later.
NextGrowth ==
    \/ /\ requests[1].pc = "idle"
       /\ now + CONTEST_CAMPING_THRESHOLD_MS <= MaxNow
       /\ Tick(CONTEST_CAMPING_THRESHOLD_MS)
    \/ requests[1].pc = "idle" /\ \E x \in OneDraw : Signup(x)
    \/ requests[1].pc = "idle" /\ \E x \in OneDraw : GetState(x)
    \/ BeginRead(1)
    \/ SelectWeek(1)
    \/ \E x \in OneDraw : InsertWeek(1, x)
    \/ SelectParticipants(1)
    \/ SelectBekandid(1)
    \/ SelectExisting(1)
    \/ InsertAssignment(1)
    \/ StorageFailure(1)
    \/ Respond(1)

SpecGrowth == Init /\ [][NextGrowth]_vars

\* A fourth account before the week's first request, so that the week holds
\* two hunters and two ghosts, every account reporting the same point, and
\* the clock moving by the cooldown.
NextPairs ==
    \/ /\ now + CONTEST_ALERT_COOLDOWN_MS <= StartNow + MaxAlertHours * HOUR_MS
       /\ Tick(CONTEST_ALERT_COOLDOWN_MS)
    \/ contest_weeks = {} /\ \E x \in OneDraw : Signup(x)
    \/ Len(inbox_messages) < MaxInbox
         /\ \E u \in DOMAIN users, x \in OneDraw : UpdateLocation(u, SeedLat[1], x)

SpecPairs == Init /\ [][NextPairs]_vars

\* Location reports and capture submissions that are the first request to
\* complete in the week, or after a signup, an opt-out or an opt-in that
\* failed at its first storage call after the write to the users table, so
\* that its sync never ran.  The reports and submissions are those of the
\* accounts that switch or sign up.
NextUnsynced ==
    \/ BeginSignup(1)
    \/ \E u \in Togglers, enabled \in { 0, 1 } : BeginBekandid(1, u, enabled)
    \/ StorageFailure(1)
    \/ Respond(1)
    \/ /\ requests[1].pc = "idle"
       /\ Len(inbox_messages) < MaxInbox
       /\ \E u \in DOMAIN users \ Movers, x \in OneDraw : UpdateLocation(u, SeedLat[1], x)
    \/ /\ requests[1].pc = "idle"
       /\ Len(posts) < MaxSurvivalPosts
       /\ \E u \in DOMAIN users \ Movers, g \in Movers, x \in OneDraw :
             CreatePost(u, g, TRUE, x, x)

SpecUnsynced == Init /\ [][NextUnsynced]_vars

\* One user opting out and back in during a week in which it captures or
\* is captured and reports its location, hours apart.
NextRejoin ==
    \/ /\ now + CONTEST_CAMPING_THRESHOLD_MS <= MaxNow
       /\ Tick(CONTEST_CAMPING_THRESHOLD_MS)
    \/ \E u \in Togglers, enabled \in { 0, 1 }, x \in OneDraw : SetBekandid(u, enabled, x)
    \/ Len(inbox_messages) < MaxInbox
         /\ \E u \in Togglers, x \in OneDraw : UpdateLocation(u, SeedLat[1], x)
    \/ Len(posts) < MaxSurvivalPosts
         /\ \E u \in DOMAIN users, g \in DOMAIN users, x \in OneDraw :
               (u \in Togglers \/ g \in Togglers) /\ CreatePost(u, g, TRUE, x, x)

SpecRejoin == Init /\ [][NextRejoin]_vars

\* Captures, opt-outs, opt-ins and location reports on both sides of a
\* weekly boundary.
NextWeeks ==
    \/ /\ now + CONTEST_DURATION_MS <= StartNow + MaxWindowDays * DAY_MS
       /\ Tick(CONTEST_DURATION_MS)
    \/ Len(posts) < MaxSurvivalPosts
         /\ \E u \in DOMAIN users, g \in DOMAIN users, x \in OneDraw :
               (u \in Togglers \/ g \in Togglers) /\ CreatePost(u, g, TRUE, x, x)
    \/ \E u \in Togglers, enabled \in { 0, 1 }, x \in OneDraw : SetBekandid(u, enabled, x)
    \/ \E u \in Togglers, x \in OneDraw : UpdateLocation(u, SeedLat[1], x)

SpecWeeks == Init /\ [][NextWeeks]_vars

\* Capture submissions between two users on both sides of a weekly
\* boundary, each week drawing its challenge and each submission claiming
\* one.
NextStale ==
    \/ /\ now + CONTEST_DURATION_MS <= StartNow + MaxWindowDays * DAY_MS
       /\ Tick(CONTEST_DURATION_MS)
    \/ \E x \in Draws : GetState(x)
    \/ Len(posts) < MaxSurvivalPosts
         /\ \E u \in Movers, g \in Movers, c \in Draws, x \in Draws :
               CreatePost(u, g, TRUE, c, x)

SpecStale == Init /\ [][NextStale]_vars

\* Posts with and without the capture flag, claiming either challenge.
NextPosts ==
    Len(posts) < MaxPosts
      /\ \E u \in DOMAIN users, g \in DOMAIN users, flag \in BOOLEAN, c \in Draws, x \in OneDraw :
            CreatePost(u, g, flag, c, x)

SpecPosts == Init /\ [][NextPosts]_vars

\* The points of a slow walk north from Ari's seed point, 89 m apart.
DriftPositions == { SeedLat[1] + 80 * k : k \in 0..MaxDriftSteps }

\* One user reporting a walk in which every position is at most 0.1 km from
\* the one reported before, while hours pass.
NextDrift ==
    \/ \E d \in TickSteps : now + d <= MaxNow /\ Tick(d)
    \/ Len(inbox_messages) < MaxInbox
         /\ \E u \in Movers, lat \in DriftPositions, x \in OneDraw :
               /\ distanceKm(users[u].location_lat, lat) <= CONTEST_CAMPING_DISTANCE_KM
               /\ UpdateLocation(u, lat, x)

SpecDrift == Init /\ [][NextDrift]_vars

\* Location reports and the opt-out and opt-in of one user, and captures
\* between that user and another, the clock moving by six hours and then by
\* single hours: every request that writes captures, survival_flag or
\* camping_violation.
NextFields ==
    \/ /\ now + CONTEST_CAMPING_THRESHOLD_MS <= MaxNow
       /\ Tick(CONTEST_CAMPING_THRESHOLD_MS)
    \/ /\ now >= StartNow + CONTEST_CAMPING_THRESHOLD_MS
       /\ now + CONTEST_ALERT_COOLDOWN_MS <= MaxNow
       /\ Tick(CONTEST_ALERT_COOLDOWN_MS)
    \/ Len(posts) < MaxSurvivalPosts
         /\ \E u \in Leavers, g \in Leavers, x \in OneDraw :
               CreatePost(u, g, TRUE, x, x)
    \/ \E u \in Togglers, enabled \in { 0, 1 }, x \in OneDraw : SetBekandid(u, enabled, x)
    \/ Len(inbox_messages) < MaxInbox
         /\ \E u \in Togglers, x \in OneDraw : UpdateLocation(u, SeedLat[1], x)

SpecFields == Init /\ [][NextFields]_vars

\* Captures of Kai by Ari, Kai leaving and rejoining the contest and
\* reporting its position, with the clock moving by six hours and then by
\* single hours; reports go on after a capture has filled the inbox.
NextView ==
    \/ /\ now + CONTEST_CAMPING_THRESHOLD_MS <= MaxNow
       /\ Tick(CONTEST_CAMPING_THRESHOLD_MS)
    \/ /\ now >= StartNow + CONTEST_CAMPING_THRESHOLD_MS
       /\ now + CONTEST_ALERT_COOLDOWN_MS <= MaxNow
       /\ Tick(CONTEST_ALERT_COOLDOWN_MS)
    \/ Len(posts) < MaxSurvivalPosts
         /\ \E u \in Leavers \ Togglers, g \in Togglers, x \in OneDraw :
               CreatePost(u, g, TRUE, x, x)
    \/ \E u \in Togglers, enabled \in { 0, 1 }, x \in OneDraw : SetBekandid(u, enabled, x)
    \/ Len(inbox_messages) < MaxInbox + MaxSurvivalPosts
         /\ \E u \in Togglers, x \in OneDraw : UpdateLocation(u, SeedLat[1], x)

SpecView == Init /\ [][NextView]_vars

\* Kai submits captures of Ari, and both report positions at Ari's seed point,
\* with the clock moving by six hours and then by single hours: a hunter's
\* report finds a ghost there, and a ghost's report finds it has not moved.
NextNotify ==
    \/ /\ now + CONTEST_CAMPING_THRESHOLD_MS <= MaxNow
       /\ Tick(CONTEST_CAMPING_THRESHOLD_MS)
    \/ /\ now >= StartNow + CONTEST_CAMPING_THRESHOLD_MS
       /\ now + CONTEST_ALERT_COOLDOWN_MS <= MaxNow
       /\ Tick(CONTEST_ALERT_COOLDOWN_MS)
    \/ Len(posts) < MaxSurvivalPosts
         /\ \E u \in Togglers, g \in Leavers \ Togglers, x \in OneDraw :
               CreatePost(u, g, TRUE, x, x)
    \/ Len(inbox_messages) < MaxInbox + MaxSurvivalPosts
         /\ \E u \in Leavers, x \in OneDraw : UpdateLocation(u, SeedLat[1], x)

SpecNotify == Init /\ [][NextNotify]_vars

\* Location reports of every account at one point, with a new account
\* signing up (it has no location until it reports one) and the clock
\* moving by six hours.
NextFirstReport ==
    \/ /\ now + CONTEST_CAMPING_THRESHOLD_MS <= MaxNow
       /\ Tick(CONTEST_CAMPING_THRESHOLD_MS)
    \/ \E x \in OneDraw : Signup(x)
    \/ Len(inbox_messages) < MaxInbox
         /\ \E u \in DOMAIN users, x \in OneDraw : UpdateLocation(u, SeedLat[1], x)

SpecFirstReport == Init /\ [][NextFirstReport]_vars

----------------------------------------------------------------------------
(* Vocabulary of the claims *)

\* The ids of the contest rows of the week that is active at instant t.
ActiveIds(weeks, t) == { w.id : w \in WeeksAt(weeks, getContestWindow(t).startsAt) }

\* The last step served a request, so a sync has just run to completion.
Served == response.op \notin { "init", "tick" }

\* The step serves a request (the clock stands still while it does).
ServesRequest == response'.op \notin { "init", "tick" } /\ now' = now

\* The user whose BeKandid flag the step switches from `from` to `to`.
Switches(u, from, to) ==
    /\ ServesRequest
    /\ response'.op = "bekandid"
    /\ u \in DOMAIN users
    /\ users[u].bekandid_enabled = from
    /\ users'[u].bekandid_enabled = to

----------------------------------------------------------------------------
(* C1.  After any completed sync the active week exists, every opted-in
   user (bekandid_enabled = 0) has exactly one assignment row in it and no
   opted-out user (bekandid_enabled = 1) has one. *)
C1_OneRowPerEligibleUser ==
    Served =>
        /\ Cardinality(ActiveIds(contest_weeks, now)) = 1
        /\ \A c \in ActiveIds(contest_weeks, now) : \A u \in DOMAIN users :
              Cardinality(RowsOfUser(contest_assignments, c, u))
                  = IF users[u].bekandid_enabled = 0 THEN 1 ELSE 0

\* A sync has just removed the row of a user who opted out in the second
\* week, while the other users keep theirs.
C1_Witness ==
    /\ response.op = "bekandid"
    /\ now > StartNow
    /\ users[response.userId].bekandid_enabled = 1
    /\ \E v \in DOMAIN users : users[v].bekandid_enabled = 0
    /\ \E c \in ActiveIds(contest_weeks, now) : RowsOf(contest_assignments, c) # {}

(* C2.  A sync that runs on a week with zero assignment rows and n eligible
   users leaves exactly ceil(n/2) Hunter rows and n - ceil(n/2) Ghost rows
   in that week, so the two counts differ by at most one. *)
C2_InitialPartitionBalanced ==
    [][ \A c \in ActiveIds(contest_weeks', now) :
          (ServesRequest /\ RowsOf(contest_assignments, c) = {}) =>
             LET n == Cardinality(Participants(users'))
                 h == CountRole(RowsOf(contest_assignments', c), "hunter")
                 g == CountRole(RowsOf(contest_assignments', c), "ghost")
             IN  /\ n <= 2 * h /\ 2 * h <= n + 1
                 /\ g = n - h
                 /\ Abs(h - g) <= 1
                 /\ Cardinality(RowsOf(contest_assignments', c)) = n ]_vars

\* The first request of a week has just partitioned three eligible users.
C2_Witness ==
    /\ response.sync = "partition"
    /\ Cardinality(Participants(users)) = 3
    /\ \E c \in ActiveIds(contest_weeks, now) :
          /\ CountRole(RowsOf(contest_assignments, c), "hunter") = 2
          /\ CountRole(RowsOf(contest_assignments, c), "ghost") = 1

(* C6.  An opt-out removes the user's row from the active week at the next
   sync; an opt-in gives the user a row there at the next sync, and when that
   week already holds assignments the new role is the one with the smaller
   count at that moment, Hunter on a tie.  When the week holds none, the
   user is placed by the initial partition. *)
C6_OptOutOptIn ==
    [][ \A c \in ActiveIds(contest_weeks', now) : \A u \in DOMAIN users :
          LET before == RowsOf(contest_assignments, c)
              mine   == RowsOfUser(contest_assignments', c, u)
              h      == CountRole(before, "hunter")
              g      == CountRole(before, "ghost")
          IN  /\ Switches(u, 0, 1) => mine = {}
              /\ Switches(u, 1, 0) =>
                    /\ Cardinality(mine) = 1
                    /\ before # {} =>
                          \A r \in mine : r.role = IF h <= g THEN "hunter" ELSE "ghost" ]_vars

\* An opt-in has just been served by an incremental join.
C6_Witness ==
    /\ response.op = "bekandid"
    /\ response.sync = "join"
    /\ users[response.userId].bekandid_enabled = 0
    /\ \E c \in ActiveIds(contest_weeks, now) :
          Cardinality(RowsOf(contest_assignments, c)) >= 2

\* C6 as first stated: the role of the new row is the minority role of the
\* week at that moment, Hunter on a tie, whether or not the week holds rows.
C6_AsStated ==
    [][ \A c \in ActiveIds(contest_weeks', now) : \A u \in DOMAIN users :
          LET before == RowsOf(contest_assignments, c)
              mine   == RowsOfUser(contest_assignments', c, u)
              h      == CountRole(before, "hunter")
              g      == CountRole(before, "ghost")
          IN  /\ Switches(u, 0, 1) => mine = {}
              /\ Switches(u, 1, 0) =>
                    /\ Cardinality(mine) = 1
                    /\ \A r \in mine : r.role = IF h <= g THEN "hunter" ELSE "ghost" ]_vars

----------------------------------------------------------------------------
(* Vocabulary of the location claims *)

\* The step serves a location update of user u.
Reports(u) ==
    ServesRequest /\ response'.op = "location" /\ response'.userId = u

\* How many messages of one type the inbox holds for (recipient, sender).
CountMessages(inbox, type, recipientId, senderId) ==
    Cardinality({ i \in 1..Len(inbox) :
                    /\ inbox[i].type = type
                    /\ inbox[i].recipient_id = recipientId
                    /\ inbox[i].sender_id = senderId })

\* Any two contest_alert messages of one (recipient, sender) pair are more
\* than the cooldown apart.
AlertsApart(inbox) ==
    \A i, j \in 1..Len(inbox) :
        ( /\ i < j
          /\ inbox[i].type = "contest_alert" /\ inbox[j].type = "contest_alert"
          /\ inbox[i].recipient_id = inbox[j].recipient_id
          /\ inbox[i].sender_id = inbox[j].sender_id )
        => inbox[j].created_at - inbox[i].created_at > CONTEST_ALERT_COOLDOWN_MS

(* C7.  After every location update by a ghost its campingViolation is set
   exactly when more than six hours have passed since lastMoveAt; an update
   more than 0.1 km from the stored position clears the flag and sets
   lastMoveAt to now, and an update within 0.1 km leaves lastMoveAt as it
   was, so lastMoveAt is the time of the last qualifying move. *)
C7_CampingFlag ==
    [][ \A c \in ActiveIds(contest_weeks', now) : \A u \in DOMAIN users :
          Reports(u) =>
             \A r2 \in RowsOfUser(contest_assignments', c, u) :
                r2.role = "ghost" =>
                   /\ (r2.camping_violation = 1)
                         <=> (now - r2.last_move_at > CONTEST_CAMPING_THRESHOLD_MS)
                   /\ \A r \in RowsOfUser(contest_assignments, c, u) :
                         r.last_location_lat # NULL =>
                            IF distanceKm(r.last_location_lat, users'[u].location_lat)
                                   > CONTEST_CAMPING_DISTANCE_KM
                            THEN r2.camping_violation = 0 /\ r2.last_move_at = now
                            ELSE r2.last_move_at = r.last_move_at ]_vars

\* A ghost has just reported a position and carries the camping flag.
C7_Witness ==
    /\ response.op = "location"
    /\ \E c \in ActiveIds(contest_weeks, now) :
          \E r \in RowsOfUser(contest_assignments, c, response.userId) :
             /\ r.role = "ghost"
             /\ r.camping_violation = 1
             /\ now - r.last_move_at > CONTEST_CAMPING_THRESHOLD_MS

(* C8.  A location update of a ghost whose campingViolation is already set
   emits no contest_warning: one warning in total until a qualifying move
   has cleared the flag. *)
C8_OneWarningPerViolation ==
    [][ \A c \in ActiveIds(contest_weeks', now) : \A u \in DOMAIN users :
          ( /\ Reports(u)
            /\ \E r \in RowsOfUser(contest_assignments, c, u) :
                  r.role = "ghost" /\ r.camping_violation = 1 )
          => CountMessages(inbox_messages', "contest_warning", u, u)
                = CountMessages(inbox_messages, "contest_warning", u, u) ]_vars

(* C9.  Any two contest_alert messages of one (hunter, ghost) pair are more
   than one hour apart, and a hunter update emits one alert about a
   surviving ghost within 0.3 km exactly when the pair has no alert in the
   last hour, and none about a ghost farther away. *)
C9_AlertCooldown ==
    [][ /\ AlertsApart(inbox_messages')
        /\ \A c \in ActiveIds(contest_weeks', now) : \A h, g \in DOMAIN users :
              ( /\ Reports(h)
                /\ \E r \in RowsOfUser(contest_assignments', c, h) : r.role = "hunter"
                /\ \E r \in RowsOfUser(contest_assignments', c, g) :
                      r.role = "ghost" /\ r.survival_flag = 1 )
              => LET near   == distanceKm(users'[h].location_lat, users'[g].location_lat)
                                   <= CONTEST_PROXIMITY_KM
                     recent == \E i \in 1..Len(inbox_messages) :
                                  /\ inbox_messages[i].type = "contest_alert"
                                  /\ inbox_messages[i].recipient_id = h
                                  /\ inbox_messages[i].sender_id = g
                                  /\ now - inbox_messages[i].created_at
                                        <= CONTEST_ALERT_COOLDOWN_MS
                 IN  CountMessages(inbox_messages', "contest_alert", h, g)
                        = CountMessages(inbox_messages, "contest_alert", h, g)
                          + IF near /\ ~recent THEN 1 ELSE 0 ]_vars

\* The inbox holds two alerts of one pair.
C9_Witness ==
    \E i, j \in 1..Len(inbox_messages) :
        /\ i < j
        /\ inbox_messages[i].type = "contest_alert"
        /\ inbox_messages[j].type = "contest_alert"
        /\ inbox_messages[i].recipient_id = inbox_messages[j].recipient_id
        /\ inbox_messages[i].sender_id = inbox_messages[j].sender_id

----------------------------------------------------------------------------
(* Captures *)

\* The post the step has just written.
NewPost == posts'[Len(posts')]

\* The step serves a POST /api/posts and the post is written.
Submits ==
    /\ ServesRequest
    /\ response'.op = "post"
    /\ Len(posts') = Len(posts) + 1

\* The week holds a capture record naming ghost g.
Captured(caps, c, g) ==
    \E k \in Range(caps) : k.contest_id = c /\ k.ghost_id = g

\* The active week exists and the assignment table agrees with the users'
\* eligibility: one row per opted-in user, none for the others.
InSync ==
    \E c \in ActiveIds(contest_weeks, now) : \A u \in DOMAIN users :
        Cardinality(RowsOfUser(contest_assignments, c, u))
            = IF users[u].bekandid_enabled = 0 THEN 1 ELSE 0

(* C3.  After a ghost has been captured once in a week, every later capture
   submission naming that ghost in that week is rejected and writes no
   capture record, so no week holds two capture records of one ghost. *)
C3_CapturedGhostRejected ==
    [][ \A c \in ActiveIds(contest_weeks, now) :
          (Submits /\ Captured(contest_captures, c, NewPost.recipient_id))
             => /\ response'.status = 400
                /\ response'.error \in { "challenge", "hunter", "ghost" }
                /\ contest_captures' = contest_captures ]_vars

(* C4.  A row whose survival_flag is 0 never shows 1 again: after any
   request the row of the same user in the same week, if there is one, still
   has survival_flag 0, and the row is gone only if the user has BeKandid
   mode on.  (The row a later opt-in creates is a new row, with the flag 1.) *)
C4_SurvivalLatchPerRow ==
    [][ \A r \in contest_assignments :
          r.survival_flag = 0 =>
             /\ \A q \in RowsOfUser(contest_assignments', r.contest_id, r.user_id) :
                   q.survival_flag = 0
             /\ RowsOfUser(contest_assignments', r.contest_id, r.user_id) = {}
                   => users'[r.user_id].bekandid_enabled = 1 ]_vars

\* A captured ghost has just reported its position and its row still shows
\* survival_flag 0.
C4_Witness ==
    /\ response.op = "location"
    /\ \E c \in ActiveIds(contest_weeks, now) :
          /\ Captured(contest_captures, c, response.userId)
          /\ \E r \in RowsOfUser(contest_assignments, c, response.userId) :
                r.survival_flag = 0 /\ r.last_location_lat # NULL

\* C4 as first stated, with the capture table as the record of the week's
\* past: a user the week has a capture record of never has survival_flag 1
\* in that week, whatever requests came in between.
C4_AsStated ==
    \A k \in Range(contest_captures) :
        \A r \in RowsOfUser(contest_assignments, k.contest_id, k.ghost_id) :
            r.survival_flag = 0

(* C5.  A capture submission whose challenge differs from the active week's
   is answered 400 with the challenge-mismatch error and, when the week
   exists and the assignments are in sync, leaves posts, inbox messages,
   assignments and capture records as they were. *)
C5_MismatchLeavesStateUnchanged ==
    [][ (Submits /\ response'.error = "challenge" /\ InSync)
           => /\ response'.status = 400
              /\ posts' = posts
              /\ inbox_messages' = inbox_messages
              /\ contest_assignments' = contest_assignments
              /\ contest_captures' = contest_captures ]_vars

\* The row of user u in week c as the capture finds it: the stored row, or
\* the row the request's own sync creates when the week has none yet.
RowBefore(c, u, role) ==
    IF RowsOfUser(contest_assignments, c, u) # {}
    THEN CHOOSE r \in RowsOfUser(contest_assignments, c, u) : TRUE
    ELSE NewAssignment(c, u, role, now)

(* C10.  A successful capture by hunter h of ghost g appends exactly one
   capture record (week, h, g, evidence post, claimed challenge), raises
   h's captures by exactly 1, sets g's survival_flag to 0, appends exactly
   one contest_capture message to h and one contest_captured message to g
   (after the post's drop), and changes no other assignment row. *)
C10_SuccessfulCapture ==
    [][ \A w \in WeeksAt(contest_weeks', getContestWindow(now).startsAt) :
          (Submits /\ response'.status = 201
                   /\ Len(contest_captures') > Len(contest_captures))
             => LET h == response'.userId
                    g == NewPost.recipient_id
                    p == NewPost.id
                    n == Len(inbox_messages)
                IN  /\ NewPost.author_id = h
                    /\ contest_captures' =
                          Append(contest_captures,
                                 [contest_id |-> w.id, hunter_id |-> h, ghost_id |-> g,
                                  post_id |-> p, challenge |-> w.challenge,
                                  created_at |-> now])
                    /\ RowsOfUser(contest_assignments', w.id, h) =
                          { [RowBefore(w.id, h, "hunter") EXCEPT
                                !.captures = RowBefore(w.id, h, "hunter").captures + 1] }
                    /\ RowsOfUser(contest_assignments', w.id, g) =
                          { [RowBefore(w.id, g, "ghost") EXCEPT !.survival_flag = 0] }
                    /\ \A r \in contest_assignments :
                          r.user_id \notin { h, g } \/ r.contest_id # w.id
                             => r \in contest_assignments'
                    /\ \A r \in contest_assignments' :
                          r.user_id \notin { h, g } \/ r.contest_id # w.id
                             => \/ r \in contest_assignments
                                \/ /\ RowsOf(contest_assignments, w.id) = {}
                                   /\ r.contest_id = w.id
                                   /\ r \in { NewAssignment(w.id, r.user_id, role, now) :
                                                 role \in { "hunter", "ghost" } }
                    /\ Len(inbox_messages') = n + 3
                    /\ SubSeq(inbox_messages', 1, n) = inbox_messages
                    /\ inbox_messages'[n + 1].type \in { "drop", "bekandid_drop" }
                    /\ inbox_messages'[n + 2] =
                          [recipient_id |-> h, sender_id |-> g, post_id |-> p,
                           type |-> "contest_capture", created_at |-> now]
                    /\ inbox_messages'[n + 3] =
                          [recipient_id |-> g, sender_id |-> h, post_id |-> p,
                           type |-> "contest_captured", created_at |-> now] ]_vars

\* A capture has just been accepted in a week that already held rows, by a
\* hunter who now has one capture, of a ghost whose flag is now 0.
C10_Witness ==
    /\ response.op = "post"
    /\ response.status = 201
    /\ response.sync = "none"
    /\ Len(contest_captures) > 0
    /\ LET k == contest_captures[Len(contest_captures)]
       IN  /\ k.post_id = Len(posts)
           /\ k.hunter_id = response.userId
           /\ \E r \in RowsOfUser(contest_assignments, k.contest_id, k.hunter_id) :
                 r.captures = 1
           /\ \E r \in RowsOfUser(contest_assignments, k.contest_id, k.ghost_id) :
                 r.survival_flag = 0
           /\ Cardinality(RowsOf(contest_assignments, k.contest_id)) = 3

----------------------------------------------------------------------------
(* Validation order *)

\* User u holds a row with the given role in week c.
HoldsRole(asg, c, u, role) == \E r \in RowsOfUser(asg, c, u) : r.role = role

(* C11.  Capture validation fails fast in the order challenge, hunter,
   ghost: a submission with the wrong challenge is answered with the
   challenge error whatever the roles; one with the right challenge from a
   user without a hunter row with the hunter error whatever the target; and
   the ghost error is given only when both checks pass.  A rejected
   submission carries exactly one of the three reasons. *)
C11_ValidationOrder ==
    [][ \A u, g \in DOMAIN users, c \in Draws, x \in Draws :
          CreatePost(u, g, TRUE, c, x) =>
             \A w \in WeeksAt(contest_weeks', getContestWindow(now).startsAt) :
                LET hunter == HoldsRole(contest_assignments', w.id, u, "hunter")
                    ghost  == HoldsRole(contest_assignments', w.id, g, "ghost")
                IN  /\ c # w.challenge =>
                          response'.status = 400 /\ response'.error = "challenge"
                    /\ (c = w.challenge /\ ~hunter) =>
                          response'.status = 400 /\ response'.error = "hunter"
                    /\ (c = w.challenge /\ hunter /\ ~ghost) =>
                          response'.status = 400 /\ response'.error = "ghost"
                    /\ (c = w.challenge /\ hunter /\ ghost) =>
                          response'.status = 201 /\ response'.error = ""
                    /\ response'.status = 400 =>
                          response'.error \in { "challenge", "hunter", "ghost" } ]_vars

\* A submission has just been rejected for its challenge although its
\* submitter holds no hunter row and its target no ghost row either.
C11_Witness ==
    /\ response.op = "post"
    /\ response.status = 400
    /\ response.error = "challenge"
    /\ \E c \in ActiveIds(contest_weeks, now) :
          /\ ~HoldsRole(contest_assignments, c, response.userId, "hunter")
          /\ ~HoldsRole(contest_assignments, c, posts[Len(posts)].recipient_id, "ghost")

----------------------------------------------------------------------------
(* The contest window *)

\* t is a Sunday 20:00:00.000 UTC (1970-01-04, day 3 of the epoch, was a
\* Sunday).
IsSundayEvening(t) == t % (7 * DAY_MS) = 3 * DAY_MS + 20 * HOUR_MS

(* C12.  For every instant the window starts at the most recent Sunday
   20:00:00 UTC at or before it and ends 7 days later, so that
   startsAt <= now < endsAt: one second before a Sunday 20:00:00 the window
   is the one that started the Sunday before, at Sunday 20:00:00 exactly it
   starts at that instant, every instant of a window maps to that window,
   and the week rows the requests create carry these two instants. *)
C12_WindowIsLastSundayEvening ==
    LET w == getContestWindow(now)
    IN  /\ IsSundayEvening(w.startsAt)
        /\ w.endsAt = w.startsAt + 7 * DAY_MS
        /\ w.startsAt <= now /\ now < w.endsAt
        /\ IsSundayEvening(now) => w.startsAt = now
        /\ IsSundayEvening(now + 1000) => w.startsAt = now + 1000 - 7 * DAY_MS
        /\ IsSundayEvening(now + 1) => w.startsAt = now + 1 - 7 * DAY_MS
        /\ \A t \in { w.startsAt, w.startsAt + 1, w.endsAt - 1000, w.endsAt - 1 } :
              getContestWindow(t) = w
        /\ getContestWindow(w.endsAt).startsAt = w.endsAt
        /\ \A row \in contest_weeks :
              /\ IsSundayEvening(row.starts_at)
              /\ row.ends_at = row.starts_at + 7 * DAY_MS
        /\ Served => \E row \in contest_weeks :
                        row.starts_at = w.startsAt /\ row.ends_at = w.endsAt

\* A read has just been served at a Sunday 20:00:00.000 and the week it
\* created starts at that very instant, the week before it being stored too.
C12_Witness ==
    /\ response.op = "state"
    /\ IsSundayEvening(now)
    /\ \E row \in contest_weeks : row.starts_at = now
    /\ \E row \in contest_weeks : row.ends_at = now

----------------------------------------------------------------------------
(* A row's lifetime *)

(* C13.  The role of an assignment row never changes: whatever request is
   served, a user who holds a row in a week before and after it holds the
   same role.  (A user who opts out loses the row; the row a later opt-in
   creates is a new one, whose role the sync chooses anew.) *)
C13_RoleFixedPerRow ==
    [][ \A r \in contest_assignments :
          \A q \in RowsOfUser(contest_assignments', r.contest_id, r.user_id) :
              q.role = r.role ]_vars

\* After a capture another user has re-joined the week, and the hunter and
\* the ghost of the capture hold the roles they had.
C13_Witness ==
    /\ response.op = "bekandid"
    /\ response.sync = "join"
    /\ \E k \in Range(contest_captures) :
          /\ response.userId \notin { k.hunter_id, k.ghost_id }
          /\ HoldsRole(contest_assignments, k.contest_id, k.hunter_id, "hunter")
          /\ HoldsRole(contest_assignments, k.contest_id, k.ghost_id, "ghost")

\* C13 as first stated, with the capture table as the record of the week's
\* past: a user of whom the week has a capture record as hunter holds no
\* ghost row in that week, and one captured as ghost holds no hunter row,
\* whatever opt-outs and opt-ins came in between.
C13_AsStated ==
    \A k \in Range(contest_captures) :
        /\ ~HoldsRole(contest_assignments, k.contest_id, k.hunter_id, "ghost")
        /\ ~HoldsRole(contest_assignments, k.contest_id, k.ghost_id, "hunter")

(* C14.  A capture does not delete the ghost's row, and no later request
   deletes it while the ghost stays opted in: the row is there, still with
   survival_flag 0 and the same role and captures, after every request.  The
   sync of the request that opts the ghost out deletes it, so a captured
   ghost holds a row in the active week exactly while it is opted in. *)
C14_CapturedRowKeptWhileOptedIn ==
    [][ ServesRequest =>
          /\ Len(contest_captures') > Len(contest_captures) =>
                LET k == contest_captures'[Len(contest_captures')]
                IN  \E q \in RowsOfUser(contest_assignments', k.contest_id, k.ghost_id) :
                       q.survival_flag = 0
          /\ \A k \in Range(contest_captures') :
                k.contest_id \in ActiveIds(contest_weeks', now) =>
                   /\ RowsOfUser(contest_assignments', k.contest_id, k.ghost_id) # {}
                         <=> users'[k.ghost_id].bekandid_enabled = 0
                   /\ \A r \in RowsOfUser(contest_assignments, k.contest_id, k.ghost_id) :
                         (r.survival_flag = 0 /\ users'[k.ghost_id].bekandid_enabled = 0)
                            => \E q \in RowsOfUser(contest_assignments', k.contest_id, k.ghost_id) :
                                  /\ q.survival_flag = 0
                                  /\ q.role = r.role
                                  /\ q.captures = r.captures ]_vars

\* Another user has just opted out and the captured ghost still holds its
\* row, with survival_flag 0.
C14_Witness ==
    /\ response.op = "bekandid"
    /\ users[response.userId].bekandid_enabled = 1
    /\ \E k \in Range(contest_captures) :
          /\ k.ghost_id # response.userId
          /\ \E r \in RowsOfUser(contest_assignments, k.contest_id, k.ghost_id) :
                r.survival_flag = 0

\* C14 as first stated: a ghost of whom the week has a capture record holds
\* a row in that week in every later state, opted out or not.
C14_AsStated ==
    \A k \in Range(contest_captures) :
        RowsOfUser(contest_assignments, k.contest_id, k.ghost_id) # {}

----------------------------------------------------------------------------
(* The sync run again *)

(* C15.  The sync is idempotent: once a request has been served, a sync
   that runs again in the same week with no user's eligibility changed,
   at the same instant or later, inserts, deletes and updates nothing, so
   the assignments after it are the assignments before it. *)
C15_SyncIdempotent ==
    [][ Served =>
          /\ \A c \in ActiveIds(contest_weeks, now) :
                \A t \in { now, now + HOUR_MS } :
                   \A s \in syncContestAssignments(contest_assignments, c, users, t) :
                      s.asg = contest_assignments
          /\ ( /\ ServesRequest
               /\ response'.op \in { "state", "bekandid" }
               /\ users' = users )
             => /\ contest_assignments' = contest_assignments
                /\ contest_weeks' = contest_weeks ]_vars

\* A plain read has just been served in a week whose rows were there
\* already, one user being opted out: its sync wrote nothing.
C15_Witness ==
    /\ response.op = "state"
    /\ response.sync = "none"
    /\ Bekandid(users) # {}
    /\ \E c \in ActiveIds(contest_weeks, now) :
          Cardinality(RowsOf(contest_assignments, c)) = 2

----------------------------------------------------------------------------
(* The week rows *)

(* C16.  With requests served one at a time there is exactly one week row
   per window in which a request was served: the first request of a window
   creates it, later requests of the window add none, no request changes or
   deletes a stored row, and nothing but a request writes the table. *)
C16_OneWeekPerWindow ==
    [][ LET window == getContestWindow(now)
        IN  /\ contest_weeks \subseteq contest_weeks'
            /\ \A w1, w2 \in contest_weeks' :
                  (w1.starts_at = w2.starts_at \/ w1.id = w2.id) => w1 = w2
            /\ \A w \in contest_weeks' \ contest_weeks :
                  /\ ServesRequest
                  /\ WeeksAt(contest_weeks, window.startsAt) = {}
                  /\ w.starts_at = window.startsAt
                  /\ w.ends_at = window.startsAt + 7 * DAY_MS
                  /\ w.challenge \in Range(CONTEST_CHALLENGES)
            /\ ServesRequest =>
                  Cardinality(WeeksAt(contest_weeks', window.startsAt)) = 1 ]_vars

\* A request has just been served in a window whose row an earlier request
\* had created, the row of the window before being stored as well.
C16_Witness ==
    /\ response.op = "state"
    /\ response.sync = "none"
    /\ Cardinality(contest_weeks) >= 2
    /\ Cardinality(WeeksAt(contest_weeks, getContestWindow(now).startsAt)) = 1

----------------------------------------------------------------------------
(* Requests in flight at once, and failing storage calls *)

\* The assignments agree with the users' eligibility in the active week,
\* which exists: one row per opted-in user, none for the others.
OneRowPerEligibleUser ==
    /\ ActiveIds(contest_weeks, now) # {}
    /\ \A c \in ActiveIds(contest_weeks, now) : \A u \in DOMAIN users :
          Cardinality(RowsOfUser(contest_assignments, c, u))
              = IF users[u].bekandid_enabled = 0 THEN 1 ELSE 0

(* C17.  Whatever the interleaving of the storage calls of two requests
   that run ensureActiveContest in the same window, with the storage
   refusing a second week row of a starts_at and a second assignment row of
   a (contest, user), the tables never hold two week rows of one starts_at
   nor two assignment rows of one (contest, user). *)
C17_NoDuplicateRows ==
    /\ \A w1, w2 \in contest_weeks : w1.starts_at = w2.starts_at => w1 = w2
    /\ \A r1, r2 \in contest_assignments :
          (r1.contest_id = r2.contest_id /\ r1.user_id = r2.user_id) => r1 = r2

\* Two requests have partitioned the same empty week at once: one of them
\* has ended on a refused insert, and the week holds rows of both.
C17_Witness ==
    /\ requests[1].pc = "failed"
    /\ requests[2].pc \in { "insert", "done" }
    /\ requests[1].rows # requests[2].rows
    /\ requests[1].rows \cap contest_assignments # {}
    /\ requests[2].rows \cap contest_assignments # {}

(* C18.  A sync that runs to completion after any number of syncs that a
   storage failure cut short, at any of their storage calls, leaves every
   eligible user with exactly one row in the active week and every
   ineligible user with none. *)
C18_CompletedSyncHeals ==
    \A p \in Procs : requests[p].pc = "done" => OneRowPerEligibleUser

\* The request before this one ended on a storage failure with the
\* partition half written, and this one has just completed it by a join.
C18_Witness ==
    /\ requests[1].pc = "done"
    /\ response.status = 500
    /\ requests[1].rows # {}
    /\ requests[1].rows \subseteq contest_assignments
    /\ requests[1].rows # contest_assignments
    /\ OneRowPerEligibleUser

----------------------------------------------------------------------------
(* Undefined coordinates *)

\* The step serves the first location report of ghost u: the row of u (the
\* stored one, or the one the request's own sync creates) has no location.
FirstReport(c, u) ==
    /\ Reports(u)
    /\ HoldsRole(contest_assignments', c, u, "ghost")
    /\ \A r \in RowsOfUser(contest_assignments, c, u) : r.last_location_lat = NULL

(* C19.  An infinite distance exceeds the camping distance and never
   satisfies the proximity distance: the first location report of a ghost
   (no location stored in its row) is treated as a move, which sets
   last_move_at to the time of the report, leaves camping_violation 0 and
   sends no warning; and a hunter's report adds no alert about a ghost
   whose account has no location. *)
C19_UndefinedCoordinates ==
    [][ \A c \in ActiveIds(contest_weeks', now) : \A u \in DOMAIN users' :
          /\ FirstReport(c, u) =>
                /\ \A q \in RowsOfUser(contest_assignments', c, u) :
                      /\ q.last_move_at = now
                      /\ q.camping_violation = 0
                      /\ q.last_location_lat = users'[u].location_lat
                /\ CountMessages(inbox_messages', "contest_warning", u, u)
                      = CountMessages(inbox_messages, "contest_warning", u, u)
          /\ \A h \in DOMAIN users' :
                ( /\ Reports(h)
                  /\ HoldsRole(contest_assignments', c, h, "hunter")
                  /\ HoldsRole(contest_assignments', c, u, "ghost")
                  /\ users'[u].location_lat = NULL )
                => CountMessages(inbox_messages', "contest_alert", h, u)
                      = CountMessages(inbox_messages, "contest_alert", h, u) ]_vars

\* A hunter has just reported its position while a surviving ghost has none
\* on its account, and another ghost's first report, made after the clock
\* had moved, has reset its last_move_at.
C19_Witness ==
    /\ response.op = "location"
    /\ \E c \in ActiveIds(contest_weeks, now) :
          /\ HoldsRole(contest_assignments, c, response.userId, "hunter")
          /\ \E g \in DOMAIN users :
                /\ users[g].location_lat = NULL
                /\ \E r \in RowsOfUser(contest_assignments, c, g) :
                      r.role = "ghost" /\ r.survival_flag = 1
          /\ \E r \in RowsOf(contest_assignments, c) :
                /\ r.role = "ghost"
                /\ r.last_location_lat # NULL
                /\ r.last_move_at > StartNow

\* C19 as first stated: the first location report of a ghost is not a
\* qualifying move, so it leaves last_move_at and camping_violation as they
\* were in the row.
C19_AsStated ==
    [][ \A c \in ActiveIds(contest_weeks', now) : \A u \in DOMAIN users' :
          FirstReport(c, u) =>
             \A r \in RowsOfUser(contest_assignments, c, u) :
                \A q \in RowsOfUser(contest_assignments', c, u) :
                   /\ q.last_move_at = r.last_move_at
                   /\ q.camping_violation = r.camping_violation ]_vars

----------------------------------------------------------------------------
(* Location reports of users outside the contest *)

(* C20.  A location report of a user who holds no assignment in the active
   week once the request's sync has run is a no-op for the contest: it
   leaves the assignment rows as the sync alone leaves them (the rows of
   the other users untouched), writes no capture record and no inbox
   message. *)
C20_ReportWithoutAssignment ==
    [][ \A u \in DOMAIN users :
          ( /\ Reports(u)
            /\ \A c \in ActiveIds(contest_weeks', now) :
                  RowsOfUser(contest_assignments', c, u) = {} )
          => /\ inbox_messages' = inbox_messages
             /\ contest_captures' = contest_captures
             /\ posts' = posts
             /\ \A r \in contest_assignments : r.user_id # u => r \in contest_assignments'
             /\ \E x \in Range(CONTEST_CHALLENGES) :
                   \E e \in ensureActiveContest(contest_weeks, contest_assignments,
                                                users', now, x) :
                      /\ contest_assignments' = e.contest_assignments
                      /\ contest_weeks' = e.contest_weeks ]_vars

\* An opted-out user has just reported the position a ghost of the week is
\* at, and holds no row.
C20_Witness ==
    /\ response.op = "location"
    /\ users[response.userId].bekandid_enabled = 1
    /\ \E c \in ActiveIds(contest_weeks, now) :
          /\ RowsOfUser(contest_assignments, c, response.userId) = {}
          /\ \E r \in RowsOf(contest_assignments, c) :
                /\ r.role = "ghost"
                /\ r.survival_flag = 1
                /\ users[r.user_id].location_lat = users[response.userId].location_lat
          /\ \E r \in RowsOf(contest_assignments, c) : r.role = "hunter"

----------------------------------------------------------------------------
(* The partition raced *)

\* Hunter and ghost rows of week c differ in number by at most one.
Balanced(asg, c) ==
    Abs(CountRole(RowsOf(asg, c), "hunter") - CountRole(RowsOf(asg, c), "ghost")) <= 1

(* C21.  When the first requests of a week run at once, each partitioning
   the empty week by its own shuffle and the storage refusing a second row
   of a (contest, user), then once all of them have ended and one more sync
   has run to completion the hunter and ghost rows of the week differ in
   number by at most one. *)
C21_RacedPartitionBalanced ==
    (\A p \in Procs : ~InFlight(p)) =>
        \A c \in ActiveIds(contest_weeks, now) :
            \A s \in syncContestAssignments(contest_assignments, c, users, now) :
                Balanced(s.asg, c)

----------------------------------------------------------------------------
(* Rejected captures *)

\* How many messages of one type the inbox holds.
CountType(inbox, type) == Cardinality({ i \in 1..Len(inbox) : inbox[i].type = type })

(* C22.  A capture submission rejected for any of the three reasons writes
   no contest state: no capture record is appended, no row's captures or
   survival_flag changes (a row the request's own sync creates starts at 0
   and 1), a table that was in sync keeps all its rows as they were, and no
   contest_capture or contest_captured message is sent. *)
C22_RejectedCaptureWritesNothing ==
    [][ (Submits /\ response'.status = 400)
           => /\ response'.error \in { "challenge", "hunter", "ghost" }
              /\ contest_captures' = contest_captures
              /\ \A q \in contest_assignments' :
                    LET old == RowsOfUser(contest_assignments, q.contest_id, q.user_id)
                    IN  IF old = {} THEN q.captures = 0 /\ q.survival_flag = 1
                        ELSE \A r \in old : /\ q.captures = r.captures
                                            /\ q.survival_flag = r.survival_flag
              /\ InSync => contest_assignments' = contest_assignments
              /\ CountType(inbox_messages', "contest_capture")
                    = CountType(inbox_messages, "contest_capture")
              /\ CountType(inbox_messages', "contest_captured")
                    = CountType(inbox_messages, "contest_captured") ]_vars

\* Each of the three rejections has been answered after a capture had been
\* recorded: here the one for a target that is no ghost.
C22_Witness ==
    /\ response.op = "post"
    /\ response.status = 400
    /\ response.error = "ghost"
    /\ Len(contest_captures) = 1
    /\ CountType(inbox_messages, "contest_capture") = 1
    /\ \E r \in contest_assignments : r.captures = 1

----------------------------------------------------------------------------
(* Captured ghosts and the proximity scan *)

(* C23.  A ghost whose row shows survival_flag 0 is left out of the
   proximity scan: no location report of a hunter adds a contest_alert
   about it, even when the hunter stands on the ghost's position and the
   pair has no alert yet.  (A captured ghost that opts out and back in
   holds a new row with survival_flag 1 and is scanned again.) *)
C23_CapturedGhostNotScanned ==
    [][ \A c \in ActiveIds(contest_weeks', now) : \A h, g \in DOMAIN users :
          ( /\ Reports(h)
            /\ \E r \in RowsOfUser(contest_assignments', c, g) : r.survival_flag = 0 )
          => CountMessages(inbox_messages', "contest_alert", h, g)
                = CountMessages(inbox_messages, "contest_alert", h, g) ]_vars

\* A hunter has just reported the very position of a captured ghost whose
\* row shows survival_flag 0, and the pair has no alert.
C23_Witness ==
    /\ response.op = "location"
    /\ \E c \in ActiveIds(contest_weeks, now) : \E g \in DOMAIN users :
          /\ HoldsRole(contest_assignments, c, response.userId, "hunter")
          /\ Captured(contest_captures, c, g)
          /\ \E r \in RowsOfUser(contest_assignments, c, g) : r.survival_flag = 0
          /\ users[g].location_lat = users[response.userId].location_lat
          /\ CountMessages(inbox_messages, "contest_alert", response.userId, g) = 0

\* C23 as first stated: once the week has a capture record of ghost g, no
\* location report of a hunter adds a contest_alert about g.
C23_AsStated ==
    [][ \A c \in ActiveIds(contest_weeks', now) : \A h, g \in DOMAIN users :
          (Reports(h) /\ Captured(contest_captures, c, g))
          => CountMessages(inbox_messages', "contest_alert", h, g)
                = CountMessages(inbox_messages, "contest_alert", h, g) ]_vars

----------------------------------------------------------------------------
(* The incremental join *)

\* The difference between the numbers of hunter and ghost rows.
Imbalance(rows) == Abs(CountRole(rows, "hunter") - CountRole(rows, "ghost"))

(* C24.  A sync that finds rows in the active week and adds rows for any
   number of newly eligible users leaves the difference between hunter and
   ghost rows at most max(1, the difference among the rows it found); so a
   week that was balanced stays balanced. *)
C24_JoinKeepsBalance ==
    [][ \A c \in ActiveIds(contest_weeks, now) :
          LET found == RowsOf(Retract(contest_assignments, c, users'), c)
              after == RowsOf(contest_assignments', c)
          IN  ( /\ ServesRequest
                /\ \A p \in Procs : ~InFlight(p) /\ requests'[p] = requests[p]
                /\ response'.op \in { "state", "signup" }
                /\ response'.status \in { 200, 201 }
                /\ found # {} )
              => /\ found \subseteq after
                 /\ Imbalance(after) <= Max({ 1, Imbalance(found) }) ]_vars

\* A signup has just been served by a join that added three rows at once
\* to a week that held one.
C24_Witness ==
    /\ response.op = "signup"
    /\ response.sync = "join"
    /\ \E c \in ActiveIds(contest_weeks, now) :
          LET rows == RowsOf(contest_assignments, c)
          IN  /\ Cardinality({ r \in rows : r.last_move_at = now }) = 3
              /\ Cardinality({ r \in rows : r.last_move_at < now }) = 1
              /\ Imbalance(rows) = 0

(* C25.  A sync that runs on a week holding rows does not shuffle again:
   every row whose user is still opted in stays as it was in every field
   (role, captures, survival_flag, camping_violation, last location,
   last_move_at), and every row it adds is a fresh row of a user who had
   none. *)
C25_JoinKeepsRows ==
    [][ \A c \in ActiveIds(contest_weeks, now) :
          ( /\ ServesRequest
            /\ response'.op = "bekandid"
            /\ RowsOf(contest_assignments, c) # {} )
          => /\ \A r \in RowsOf(contest_assignments, c) :
                   users'[r.user_id].bekandid_enabled = 0
                   => /\ r \in contest_assignments'
                      /\ RowsOfUser(contest_assignments', c, r.user_id) = { r }
             /\ \A r \in RowsOf(contest_assignments', c) \ contest_assignments :
                   /\ \A q \in RowsOfUser(contest_assignments, c, r.user_id) :
                         users'[q.user_id].bekandid_enabled = 1
                   /\ r = NewAssignment(c, r.user_id, r.role, now) ]_vars

\* An opt-in has just been served by a join, in a week that holds a hunter
\* row with a capture, a ghost row that was captured and a row with a
\* stored location.
C25_Witness ==
    /\ response.op = "bekandid"
    /\ response.sync = "join"
    /\ \E c \in ActiveIds(contest_weeks, now) :
          /\ \E r \in RowsOf(contest_assignments, c) : r.captures > 0
          /\ \E r \in RowsOf(contest_assignments, c) : r.survival_flag = 0
          /\ \E r \in RowsOf(contest_assignments, c) : r.last_location_lat # NULL

----------------------------------------------------------------------------
(* The cooldown of one pair and the alerts of another *)

\* The surviving ghosts of contest c that stand within the proximity radius
\* of the position user h has just reported.
GhostsNear(c, h) ==
    { g \in DOMAIN users' :
        /\ \E r \in RowsOfUser(contest_assignments', c, g) :
              r.role = "ghost" /\ r.survival_flag = 1
        /\ distanceKm(users'[h].location_lat, users'[g].location_lat)
              <= CONTEST_PROXIMITY_KM }

\* The inbox holds a contest_alert to h about g that is not older than the
\* cooldown at instant t.
AlertedLately(inbox, h, g, t) ==
    \E i \in 1..Len(inbox) :
        /\ inbox[i].type = "contest_alert"
        /\ inbox[i].recipient_id = h
        /\ inbox[i].sender_id = g
        /\ t - inbox[i].created_at <= CONTEST_ALERT_COOLDOWN_MS

(* C26.  The cooldown belongs to the (hunter, ghost) pair: a hunter's
   location update adds one alert for each surviving ghost within 0.3 km
   whose pair with this hunter has no alert in the last hour, whatever
   alerts the hunter holds about other ghosts and whatever alerts other
   hunters hold about the same ghost; it adds nothing else to the inbox and
   no alert to any other hunter. *)
C26_CooldownPerPair ==
    [][ \A c \in ActiveIds(contest_weeks', now) : \A h \in DOMAIN users :
          (Reports(h) /\ HoldsRole(contest_assignments', c, h, "hunter"))
          => LET due == { g \in GhostsNear(c, h) :
                            ~AlertedLately(inbox_messages, h, g, now) }
             IN  /\ \A g \in due :
                       CountMessages(inbox_messages', "contest_alert", h, g)
                          = CountMessages(inbox_messages, "contest_alert", h, g) + 1
                 /\ Len(inbox_messages') = Len(inbox_messages) + Cardinality(due)
                 /\ SubSeq(inbox_messages', 1, Len(inbox_messages)) = inbox_messages ]_vars

\* One report has just added two alerts to one hunter, about two ghosts,
\* while the inbox holds an alert of the last hour to another hunter about
\* one of the two.
C26_Witness ==
    /\ response.op = "location"
    /\ Len(inbox_messages) >= 3
    /\ LET n == Len(inbox_messages)
           a == inbox_messages[n - 1]
           b == inbox_messages[n]
       IN  /\ a.type = "contest_alert" /\ b.type = "contest_alert"
           /\ a.created_at = now /\ b.created_at = now
           /\ a.recipient_id = response.userId /\ b.recipient_id = response.userId
           /\ a.sender_id # b.sender_id
           /\ \E i \in 1..(n - 2) :
                 /\ inbox_messages[i].type = "contest_alert"
                 /\ inbox_messages[i].recipient_id # response.userId
                 /\ inbox_messages[i].sender_id = a.sender_id
                 /\ now - inbox_messages[i].created_at <= CONTEST_ALERT_COOLDOWN_MS

----------------------------------------------------------------------------
(* The sync before the lookup *)

(* C27.  A location update and a capture submission look the assignment up
   after the week has been resolved or created and the sync has run: the
   location update of an opted-in user always finds that user's row and
   stores the position in it, and a capture between two opted-in users is
   never refused for want of a row (the hunter error means the submitter
   holds a ghost row, the ghost error that the target holds a hunter row),
   also when the user signed up or opted in, or the week began, since the
   last sync that completed. *)
C27_LookupAfterSync ==
    [][ /\ \A u \in DOMAIN users' :
              (Reports(u) /\ requests' = requests /\ users'[u].bekandid_enabled = 0)
              => \E c \in ActiveIds(contest_weeks', now) :
                    \E r \in RowsOfUser(contest_assignments', c, u) :
                        r.last_location_lat = users'[u].location_lat
        /\ ( /\ Submits
             /\ requests' = requests
             /\ users[NewPost.author_id].bekandid_enabled = 0
             /\ users[NewPost.recipient_id].bekandid_enabled = 0 )
           => \E c \in ActiveIds(contest_weeks', now) :
                 /\ RowsOfUser(contest_assignments', c, NewPost.author_id) # {}
                 /\ RowsOfUser(contest_assignments', c, NewPost.recipient_id) # {}
                 /\ response'.error = "hunter"
                       => HoldsRole(contest_assignments', c, NewPost.author_id, "ghost")
                 /\ response'.error = "ghost"
                       => HoldsRole(contest_assignments', c, NewPost.recipient_id, "hunter")
                 /\ response'.error = ""
                       => /\ HoldsRole(contest_assignments', c, NewPost.author_id, "hunter")
                          /\ HoldsRole(contest_assignments', c, NewPost.recipient_id, "ghost")
      ]_vars

\* The account that signed up last has just reported its location, and the
\* sync of that very request gave it its row: the only other account that
\* may lack one is opted out.
C27_Witness ==
    /\ response.op = "location"
    /\ response.sync = "join"
    /\ response.userId = Cardinality(DOMAIN users)
    /\ response.userId \notin DOMAIN SeedLat
    /\ \A u \in Togglers : users[u].bekandid_enabled = 1
    /\ \E c \in ActiveIds(contest_weeks, now) :
          \E r \in RowsOfUser(contest_assignments, c, response.userId) :
              r.last_location_lat = SeedLat[1]

----------------------------------------------------------------------------
(* The row of a user who opts back in *)

\* The row of user u in contest c is a fresh one made at instant t.
FreshRow(asg, c, u, t) ==
    \E r \in RowsOfUser(asg, c, u) :
        /\ RowsOfUser(asg, c, u) = { r }
        /\ r.captures = 0
        /\ r.survival_flag = 1
        /\ r.camping_violation = 0
        /\ r.last_location_lat = NULL
        /\ r.last_move_at = t

(* C28.  A user who opts back in gets a fresh row: captures 0, survival_flag
   1, camping_violation 0, no last location and last_move_at the time of
   the sync, whatever the row deleted at the opt-out held. *)
C28_OptInRowIsFresh ==
    [][ \A c \in ActiveIds(contest_weeks', now) : \A u \in DOMAIN users :
          Switches(u, 1, 0) => FreshRow(contest_assignments', c, u, now) ]_vars

\* A user has just opted back in, hours after the week's rows were made,
\* in a week in which it made a capture or was captured before it opted
\* out; its row is a fresh one.
C28_Witness ==
    /\ response.op = "bekandid"
    /\ response.sync = "join"
    /\ now > StartNow
    /\ \E c \in ActiveIds(contest_weeks, now) : \E u \in DOMAIN users :
          /\ response.userId = u
          /\ users[u].bekandid_enabled = 0
          /\ users[u].location_lat = SeedLat[1]
          /\ \E k \in Range(contest_captures) :
                k.contest_id = c /\ (k.hunter_id = u \/ k.ghost_id = u)
          /\ FreshRow(contest_assignments, c, u, now)

----------------------------------------------------------------------------
(* What a location update writes *)

\* The rows of users other than u are what they were, or rows the sync of
\* the request has just made.
OtherRowsKept(c, u) ==
    /\ \A q \in contest_assignments : q.user_id # u => q \in contest_assignments'
    /\ \A q \in contest_assignments' \ contest_assignments :
          q.user_id # u => q = NewAssignment(c, q.user_id, q.role, now)

(* C29.  A location update by a participant of either role stores the
   reported coordinates in the participant's row and changes no row of any
   other user.  The first UPDATE sets last_move_at only in a row where it
   is unset.  A hunter's row changes in no other field; a ghost's row keeps
   role, captures and survival_flag, and its last_move_at becomes the time
   of the update exactly when the update is a move of more than 0.1 km (or
   the row held no position). *)
C29_LocationStored ==
    [][ /\ \A r \in contest_assignments : \A lat \in Positions :
              StoreLocation({ [r EXCEPT !.last_move_at = NULL] },
                            r.contest_id, r.user_id, lat, now)
                 = { [r EXCEPT !.last_location_lat = lat, !.last_move_at = now] }
        /\ \A c \in ActiveIds(contest_weeks', now) : \A u \in DOMAIN users :
              Reports(u) =>
                 /\ OtherRowsKept(c, u)
                 /\ \A r2 \in RowsOfUser(contest_assignments', c, u) :
                       LET r   == RowBefore(c, u, r2.role)
                           lat == users'[u].location_lat
                       IN  /\ r2.last_location_lat = lat
                           /\ r2.role = "hunter"
                                 => r2 = [r EXCEPT !.last_location_lat = lat]
                           /\ r2.role = "ghost"
                                 => /\ r2.captures = r.captures
                                    /\ r2.survival_flag = r.survival_flag
                                    /\ r2.last_move_at
                                          = IF distanceKm(r.last_location_lat, lat)
                                                  > CONTEST_CAMPING_DISTANCE_KM
                                            THEN now ELSE r.last_move_at ]_vars

\* A ghost has just reported a move, hours after its row was made, which
\* set its last_move_at to the time of the report, while a hunter's row
\* holds a reported position and the last_move_at it was made with.
C29_Witness ==
    /\ response.op = "location"
    /\ now > StartNow
    /\ \E c \in ActiveIds(contest_weeks, now) :
          /\ \E r \in RowsOfUser(contest_assignments, c, response.userId) :
                /\ r.role = "ghost"
                /\ r.last_location_lat = users[response.userId].location_lat
                /\ r.last_move_at = now
          /\ \E r \in RowsOf(contest_assignments, c) :
                /\ r.role = "hunter"
                /\ r.last_location_lat # NULL
                /\ r.last_move_at = StartNow

\* C29 as stated: whatever the role, last_move_at is written only where it
\* was unset.
C29_AsStated ==
    [][ \A c \in ActiveIds(contest_weeks', now) : \A u \in DOMAIN users :
          Reports(u) =>
             \A r2 \in RowsOfUser(contest_assignments', c, u) :
                 LET r == RowBefore(c, u, r2.role)
                 IN  /\ r2.last_location_lat = users'[u].location_lat
                     /\ r2.last_move_at = IF r.last_move_at = NULL THEN now
                                          ELSE r.last_move_at ]_vars

----------------------------------------------------------------------------
(* Weeks that have ended *)

\* The capture records of contest c, in the order they were written.
CapturesOf(caps, c) == SelectSeq(caps, LAMBDA k : k.contest_id = c)

(* C30.  No step inserts, updates or deletes an assignment row or a capture
   record of a week other than the one active when the request is served,
   so the rows and records of a week that has ended stay as they are, as
   does the week's own row; and a request served when the active window has
   no week creates the week and gives every opted-in user one row in it,
   and no row to any opted-out user. *)
C30_EndedWeeksUntouched ==
    [][ /\ \A w \in contest_weeks :
              w.id \notin ActiveIds(contest_weeks', now')
              => /\ w \in contest_weeks'
                 /\ RowsOf(contest_assignments', w.id) = RowsOf(contest_assignments, w.id)
                 /\ CapturesOf(contest_captures', w.id) = CapturesOf(contest_captures, w.id)
        /\ \A r \in contest_assignments' \ contest_assignments :
              r.contest_id \in ActiveIds(contest_weeks', now')
        /\ \A i \in (Len(contest_captures) + 1)..Len(contest_captures') :
              contest_captures'[i].contest_id \in ActiveIds(contest_weeks', now')
        /\ (ServesRequest /\ ActiveIds(contest_weeks, now) = {})
              => /\ Cardinality(contest_weeks' \ contest_weeks) = 1
                 /\ Cardinality(ActiveIds(contest_weeks', now)) = 1
                 /\ response'.sync = "partition"
                 /\ \A c \in ActiveIds(contest_weeks', now) : \A u \in DOMAIN users' :
                       Cardinality(RowsOfUser(contest_assignments', c, u))
                          = IF users'[u].bekandid_enabled = 0 THEN 1 ELSE 0 ]_vars

\* A location update has just been served in the second week, while the
\* first week, which has ended, holds a capture record, the hunter's count,
\* the captured ghost's cleared flag and a reported position.
C30_Witness ==
    /\ response.op = "location"
    /\ \E w \in contest_weeks :
          /\ w.ends_at <= now
          /\ CapturesOf(contest_captures, w.id) # << >>
          /\ \E r \in RowsOf(contest_assignments, w.id) : r.captures > 0
          /\ \E r \in RowsOf(contest_assignments, w.id) : r.survival_flag = 0
          /\ \E r \in RowsOf(contest_assignments, w.id) : r.last_location_lat # NULL
    /\ \E c \in ActiveIds(contest_weeks, now) :
          \E r \in RowsOfUser(contest_assignments, c, response.userId) :
              r.last_location_lat = SeedLat[1] /\ r.last_move_at = now

----------------------------------------------------------------------------
(* The challenge of the week before *)

\* The weeks that ended at the instant the window of t starts.
PreviousWeeks(weeks, t) == { w \in weeks : w.ends_at = getContestWindow(t).startsAt }

(* C31.  A capture submission that claims the challenge of the week before
   is answered with the challenge error exactly when the active week drew
   a different challenge; when both weeks drew the same one the claim
   passes the challenge check. *)
C31_StaleChallenge ==
    [][ \A u, g \in Movers : \A c, x \in Draws :
          \A w \in PreviousWeeks(contest_weeks, now) :
             (c = w.challenge /\ CreatePost(u, g, TRUE, c, x))
             => \A a \in WeeksAt(contest_weeks', getContestWindow(now).startsAt) :
                   /\ a.challenge # w.challenge
                         => response'.status = 400 /\ response'.error = "challenge"
                   /\ a.challenge = w.challenge => response'.error # "challenge" ]_vars

\* A submission has just been answered with the challenge error in a week
\* whose challenge differs from that of the week before.
C31_Witness ==
    /\ response.op = "post"
    /\ response.status = 400
    /\ response.error = "challenge"
    /\ \E w \in PreviousWeeks(contest_weeks, now) :
          \E a \in WeeksAt(contest_weeks, getContestWindow(now).startsAt) :
              a.challenge # w.challenge

\* C31 as stated: the challenge of the week before is refused whatever the
\* active week drew.
C31_AsStated ==
    [][ \A u, g \in Movers : \A c, x \in Draws :
          \A w \in PreviousWeeks(contest_weeks, now) :
             (c = w.challenge /\ CreatePost(u, g, TRUE, c, x))
             => response'.status = 400 /\ response'.error = "challenge" ]_vars

----------------------------------------------------------------------------
(* The two locations of a ghost *)

\* The row of ghost g holds no position, or one farther than the proximity
\* radius from the position lat, while the users table holds one within it.
Drifted(asg, usr, c, g, lat) ==
    /\ distanceKm(lat, usr[g].location_lat) <= CONTEST_PROXIMITY_KM
    /\ \E r \in RowsOfUser(asg, c, g) :
          /\ r.role = "ghost" /\ r.survival_flag = 1
          /\ r.last_location_lat # usr[g].location_lat
          /\ distanceKm(lat, r.last_location_lat) > CONTEST_PROXIMITY_KM

(* C32.  The position in the users table and the one recorded in the
   assignment row can differ, and the hunter scan follows the users table:
   a hunter's update within 0.3 km of the position the users table holds
   for a surviving ghost adds an alert about it (the pair having none in
   the last hour) although the ghost's row holds no position or one out of
   range. *)
C32_ScanUsesDirectoryLocation ==
    [][ \A c \in ActiveIds(contest_weeks', now) : \A h, g \in DOMAIN users :
          ( /\ Reports(h)
            /\ HoldsRole(contest_assignments', c, h, "hunter")
            /\ Drifted(contest_assignments', users', c, g, users'[h].location_lat)
            /\ ~AlertedLately(inbox_messages, h, g, now) )
          => CountMessages(inbox_messages', "contest_alert", h, g)
                = CountMessages(inbox_messages, "contest_alert", h, g) + 1 ]_vars

\* A hunter has just been alerted about a ghost whose row holds no
\* position, the users table holding one within range.
C32_Witness ==
    /\ response.op = "location"
    /\ Len(inbox_messages) > 0
    /\ LET m == inbox_messages[Len(inbox_messages)]
       IN  /\ m.type = "contest_alert"
           /\ m.recipient_id = response.userId
           /\ m.created_at = now
           /\ \E c \in ActiveIds(contest_weeks, now) :
                 /\ Drifted(contest_assignments, users, c, m.sender_id,
                            users[response.userId].location_lat)
                 /\ \E r \in RowsOfUser(contest_assignments, c, m.sender_id) :
                       r.last_location_lat = NULL

----------------------------------------------------------------------------
(* Posts without the capture flag *)

(* C33.  A post without the capture flag is written and answered 201
   whatever the roles and the challenge string: it adds the recipient's
   drop and nothing else to the inbox, no capture record, and leaves the
   captures and survival_flag of every row as they were. *)
C33_PlainPostSkipsCapture ==
    [][ \A u, g \in DOMAIN users : \A c \in Draws, x \in OneDraw :
          CreatePost(u, g, FALSE, c, x)
          => /\ response'.status = 201
             /\ contest_captures' = contest_captures
             /\ Len(inbox_messages') = Len(inbox_messages) + 1
             /\ inbox_messages'[Len(inbox_messages')].type = "drop"
             /\ CountType(inbox_messages', "contest_capture")
                   = CountType(inbox_messages, "contest_capture")
             /\ CountType(inbox_messages', "contest_captured")
                   = CountType(inbox_messages, "contest_captured")
             /\ \A r2 \in contest_assignments' :
                   LET r == RowBefore(r2.contest_id, r2.user_id, r2.role)
                   IN  r2.captures = r.captures /\ r2.survival_flag = r.survival_flag ]_vars

\* A post of a hunter to a ghost has just been answered 201 and no capture
\* record names it, in a week that holds a capture.
C33_Witness ==
    /\ response.op = "post"
    /\ response.status = 201
    /\ contest_captures # << >>
    /\ \A k \in Range(contest_captures) : k.post_id # Len(posts)
    /\ inbox_messages[Len(inbox_messages)].type = "drop"
    /\ inbox_messages[Len(inbox_messages)].post_id = Len(posts)
    /\ \E c \in ActiveIds(contest_weeks, now) :
          /\ HoldsRole(contest_assignments, c, posts[Len(posts)].author_id, "hunter")
          /\ HoldsRole(contest_assignments, c, posts[Len(posts)].recipient_id, "ghost")
          /\ \E r \in RowsOf(contest_assignments, c) : r.captures > 0

----------------------------------------------------------------------------
(* The captures count and the capture records *)

\* How many capture records of contest c name u as the hunter.
CountCaptures(caps, c, u) ==
    Cardinality({ i \in 1..Len(caps) : caps[i].contest_id = c /\ caps[i].hunter_id = u })

(* C34.  The captures count of a hunter row counts the capture records
   written for that hunter since the row was made: every step raises the
   count of a hunter row by the number of records it adds for that hunter,
   a row that is new starting at 0, so the count never exceeds the number
   of the week's records of that hunter and equals it as long as the
   hunter has not opted out and back in. *)
C34_CapturesFollowRecords ==
    [][ \A c \in ActiveIds(contest_weeks', now) : \A u \in DOMAIN users :
          \A r2 \in RowsOfUser(contest_assignments', c, u) :
             r2.role = "hunter"
             => /\ r2.captures - RowBefore(c, u, "hunter").captures
                      = CountCaptures(contest_captures', c, u)
                           - CountCaptures(contest_captures, c, u)
                /\ r2.captures <= CountCaptures(contest_captures', c, u) ]_vars

\* A hunter who made a capture, opted out and back in and made another
\* holds a count of 1 against two records.
C34_Witness ==
    \E c \in ActiveIds(contest_weeks, now) : \E u \in DOMAIN users :
        /\ CountCaptures(contest_captures, c, u) = 2
        /\ \E r \in RowsOfUser(contest_assignments, c, u) :
              r.role = "hunter" /\ r.captures = 1

\* C34 as stated: the count of every hunter row equals the number of the
\* week's records of that hunter.
C34_AsStated ==
    \A c \in ActiveIds(contest_weeks, now) : \A u \in DOMAIN users :
        \A r \in RowsOfUser(contest_assignments, c, u) :
            r.role = "hunter" => r.captures = CountCaptures(contest_captures, c, u)

----------------------------------------------------------------------------
(* A ghost that drifts *)

(* C35.  The ghost branch measures the move from the position reported
   last, not from the position held at last_move_at: a report at most
   0.1 km from the position the row holds leaves last_move_at as it was and
   sets camping_violation once more than six hours have passed since
   last_move_at, however far the ghost has come in such steps. *)
C35_DriftIsCamping ==
    [][ \A c \in ActiveIds(contest_weeks', now) : \A u \in DOMAIN users :
          \A r \in RowsOfUser(contest_assignments, c, u) :
             ( /\ Reports(u)
               /\ r.role = "ghost"
               /\ distanceKm(r.last_location_lat, users'[u].location_lat)
                     <= CONTEST_CAMPING_DISTANCE_KM )
             => \A r2 \in RowsOfUser(contest_assignments', c, u) :
                   /\ r2.last_move_at = r.last_move_at
                   /\ r2.camping_violation
                         = IF now - r.last_move_at > CONTEST_CAMPING_THRESHOLD_MS
                           THEN 1 ELSE r.camping_violation ]_vars

\* A ghost is flagged for camping at a point three steps (267 m) north of
\* the seed point, its last_move_at more than six hours old; it made its
\* first report of the week, which set last_move_at, at most one step
\* north of the seed point.
C35_Witness ==
    /\ response.op = "location"
    /\ \E c \in ActiveIds(contest_weeks, now) :
          \E r \in RowsOfUser(contest_assignments, c, response.userId) :
              /\ r.role = "ghost"
              /\ r.camping_violation = 1
              /\ now - r.last_move_at > CONTEST_CAMPING_THRESHOLD_MS
              /\ r.last_location_lat = SeedLat[1] + 80 * 3

----------------------------------------------------------------------------
(* Fields that belong to one role *)

(* C36.  In every state every ghost row has captures 0, and every hunter
   row has survival_flag 1 and camping_violation 0. *)
C36_FieldsRoleScoped ==
    \A r \in contest_assignments :
        /\ r.role = "ghost" => r.captures = 0
        /\ r.role = "hunter" => r.survival_flag = 1 /\ r.camping_violation = 0

\* The week holds a hunter row with a capture and a reported position, and
\* a ghost row that is captured and flagged for camping.
C36_Witness ==
    \E c \in ActiveIds(contest_weeks, now) :
        /\ \E r \in RowsOf(contest_assignments, c) :
              r.role = "hunter" /\ r.captures > 0
        /\ \E r \in RowsOf(contest_assignments, c) :
              r.role = "ghost" /\ r.survival_flag = 0 /\ r.camping_violation = 1

----------------------------------------------------------------------------
(* A user who names itself *)

(* C37.  A capture submission whose submitter is its own target is always
   answered 400 and adds no capture record, whatever row the user holds
   and whatever challenge is claimed; no capture record has the same user
   as hunter and ghost. *)
C37_NoSelfCapture ==
    [][ /\ \A u \in DOMAIN users : \A c, x \in Draws :
              CreatePost(u, u, TRUE, c, x)
              => /\ response'.status = 400
                 /\ response'.error \in { "challenge", "hunter", "ghost" }
                 /\ contest_captures' = contest_captures
        /\ \A k \in Range(contest_captures') : k.hunter_id # k.ghost_id ]_vars

\* A hunter who named itself with the week's challenge has just been
\* answered with the ghost error.
C37_Witness ==
    /\ response.op = "post"
    /\ response.status = 400
    /\ response.error = "ghost"
    /\ posts[Len(posts)].author_id = posts[Len(posts)].recipient_id
    /\ \E c \in ActiveIds(contest_weeks, now) :
          HoldsRole(contest_assignments, c, posts[Len(posts)].author_id, "hunter")

----------------------------------------------------------------------------
(* The contest view of the state payload *)

(* C38.  Whatever order the rows of the active week are read in,
   survivingGhosts lists, once each, exactly the users whose row is a ghost
   row with survival_flag set and camping_violation clear, so that a ghost
   flagged for camping is left out although no capture names it; and
   hunterLeaderboard lists every hunter row once, with its captures, in
   non-increasing order of captures. *)
C38_ContestView ==
    \A c \in ActiveIds(contest_weeks, now) :
       \A rows \in assignmentRows(contest_assignments, c) :
          LET ghosts  == survivingGhosts(rows)
              board   == hunterLeaderboard(rows)
              hunters == { r \in RowsOf(contest_assignments, c) : r.role = "hunter" }
          IN  /\ Range(ghosts)
                    = { r.user_id : r \in { x \in RowsOf(contest_assignments, c) :
                                              /\ x.role = "ghost"
                                              /\ x.survival_flag = 1
                                              /\ x.camping_violation = 0 } }
              /\ \A i, j \in 1..Len(ghosts) : i # j => ghosts[i] # ghosts[j]
              /\ \A g \in DOMAIN users :
                    (\E r \in RowsOfUser(contest_assignments, c, g) :
                         r.role = "ghost" /\ r.camping_violation = 1)
                    => g \notin Range(ghosts)
              /\ Len(board) = Cardinality(hunters)
              /\ { [user_id |-> r.user_id, captures |-> r.captures] : r \in hunters }
                    = { [user_id |-> board[i].userId, captures |-> board[i].captures]
                        : i \in 1..Len(board) }
              /\ \A i, j \in 1..Len(board) :
                    i < j => board[i].captures >= board[j].captures

\* The week holds a ghost that is flagged for camping and not captured, and
\* two hunters of whom one has made a capture.
C38_Witness ==
    \E c \in ActiveIds(contest_weeks, now) :
        /\ \E r \in RowsOf(contest_assignments, c) :
              r.role = "ghost" /\ r.survival_flag = 1 /\ r.camping_violation = 1
        /\ \E r, q \in RowsOf(contest_assignments, c) :
              /\ r.role = "hunter" /\ q.role = "hunter"
              /\ r.captures > q.captures

----------------------------------------------------------------------------
(* Notifications and roles *)

\* The messages a step appends to the inbox.
Emitted == { inbox_messages'[i] : i \in (Len(inbox_messages) + 1)..Len(inbox_messages') }

(* C39.  A request only appends to the inbox, and what it appends respects
   the roles of the active week as the request leaves them: a contest_alert
   comes from a location report, its recipient holds a hunter row and its
   sender is another user, whose row is a ghost row with survival_flag set;
   a contest_warning comes from a location report, its recipient is its
   sender and holds a ghost row; and the only other types written are
   contest_capture and contest_captured, by a post that records a capture,
   besides the drop message of the post itself. *)
C39_NotificationsRespectRoles ==
    [][ /\ Len(inbox_messages') >= Len(inbox_messages)
        /\ SubSeq(inbox_messages', 1, Len(inbox_messages)) = inbox_messages
        /\ \A m \in Emitted :
              /\ m.type \in { "drop", "contest_warning", "contest_alert",
                              "contest_capture", "contest_captured" }
              /\ m.type = "drop" => Submits
              /\ m.type \in { "contest_capture", "contest_captured" } =>
                    /\ Submits
                    /\ Len(contest_captures') = Len(contest_captures) + 1
              /\ m.type = "contest_alert" =>
                    /\ Reports(m.recipient_id)
                    /\ m.sender_id # m.recipient_id
                    /\ \E c \in ActiveIds(contest_weeks', now) :
                          /\ HoldsRole(contest_assignments', c, m.recipient_id, "hunter")
                          /\ \E r \in RowsOfUser(contest_assignments', c, m.sender_id) :
                                r.role = "ghost" /\ r.survival_flag = 1
              /\ m.type = "contest_warning" =>
                    /\ Reports(m.recipient_id)
                    /\ m.sender_id = m.recipient_id
                    /\ \E c \in ActiveIds(contest_weeks', now) :
                          HoldsRole(contest_assignments', c, m.recipient_id, "ghost") ]_vars

\* The inbox holds a message of each of the four contest types, the alert
\* about a ghost that has been captured since.
C39_Witness ==
    /\ \A type \in { "contest_warning", "contest_alert", "contest_capture",
                     "contest_captured" } : CountType(inbox_messages, type) > 0
    /\ \E i \in 1..Len(inbox_messages) :
          /\ inbox_messages[i].type = "contest_alert"
          /\ \E r \in contest_assignments :
                /\ r.user_id = inbox_messages[i].sender_id
                /\ r.role = "ghost"
                /\ r.survival_flag = 0

====
